---- MODULE Spec2Model ----
(***************************************************************************)
(* The mock-interview turn-taking loop of Interview Coach Pro:             *)
(* InterviewView (the orchestrator), the Gemini service clients it calls   *)
(* (getNextStep, generateSpeech, transcribeAudio, retryOperation), the     *)
(* MediaRecorder it drives and the App callback that receives the report.  *)
(***************************************************************************)
EXTENDS Integers, Sequences, FiniteSets, TLC

VARIABLES
    generator,          \* environment: how the remote Turn Generator behaves
    status,             \* InterviewView state `status`
    transcript,         \* InterviewView state `transcript`
    currentQuestion,    \* InterviewView state `currentQuestion`
    questionNumber,     \* InterviewView state `questionNumber`
    permissionError,    \* InterviewView state `permissionError`
    transcriptionError, \* InterviewView state `transcriptionError`
    recorder,           \* mediaRecorderRef.current and its MediaRecorder.state
    stream,             \* the MediaStream that getUserMedia returned
    mounted,            \* is the InterviewView of this session mounted?
    tasks,              \* pending asynchronous work: calls in flight, queued events
    interviewReport,    \* App state `interviewReport`
    flowView,           \* App state `interviewFlowView`
    activeFeature,      \* App state `activeFeature`
    user,               \* App state `user`
    saved,              \* the reports written by dbService.saveInterviewReport
    finishCount,        \* history: number of onFinish calls
    genIssued,          \* history: number of getNextStep calls issued
    nullCalls,          \* history: number of getNextStep calls with userAnswer = null
    firstRemote,        \* history: the first remote call of the session
    answered,           \* history: number of answers accepted (passed to processNextStep)
    failedInRow,        \* history: transcribeAudio calls that failed in a row
    issued,             \* history: the source returned with the current question
    ev,                 \* history: the step just taken and its input
    h                   \* the state of a service or component examined on its own

vars == <<generator, status, transcript, currentQuestion, questionNumber,
          permissionError, transcriptionError, recorder, stream, mounted, tasks,
          interviewReport, flowView, activeFeature, user, saved, finishCount,
          genIssued, nullCalls, firstRemote, answered, failedInRow, issued, ev, h>>

sessionVars == <<generator, status, transcript, currentQuestion, questionNumber,
          permissionError, transcriptionError, recorder, stream, mounted, tasks,
          interviewReport, flowView, activeFeature, user, saved, finishCount,
          genIssued, nullCalls, firstRemote, answered, failedInRow, issued, ev>>

(* The state of the InterviewView component and of its recorder. *)
viewVars == <<status, transcript, currentQuestion, questionNumber, permissionError,
              transcriptionError, recorder, stream, mounted>>

(* The state of App. *)
appVars == <<interviewReport, flowView, activeFeature, user, saved>>

(* The counters of the calls issued. *)
callVars == <<genIssued, nullCalls, firstRemote, answered>>

(***************************************************************************)
(* Bounds of the model.                                                    *)
(***************************************************************************)
MaxTurns == 2

MaxQNum == 2

MaxLongTurns == 8

MaxBlob == 2

(***************************************************************************)
(* Program constants.                                                      *)
(***************************************************************************)
TOTAL_QUESTIONS == 7

DefaultRetries == 2

MinAnswerLength == 5

PlaceholderPhraseLength == 29

(***************************************************************************)
(* Optional values (undefined / null in the source).                       *)
(***************************************************************************)
None == <<>>

Some(x) == <<x>>

(***************************************************************************)
(* Text.  A text is a sequence of tokens: " " is one white-space           *)
(* character, "a" and "A" one letter, "ph" the phrase                      *)
(* "this is my transcribed answer" in lower case and "PH" the same phrase  *)
(* with capitals.  `Null` is the null answer of the first call.            *)
(***************************************************************************)
Null == <<"null">>

Width(tok) == IF tok \in {"ph", "PH"} THEN PlaceholderPhraseLength ELSE 1

RECURSIVE TextLength(_)
TextLength(t) == IF t = <<>> THEN 0 ELSE Width(Head(t)) + TextLength(Tail(t))

RECURSIVE TrimStart(_)
TrimStart(t) == IF t # <<>> /\ Head(t) = " " THEN TrimStart(Tail(t)) ELSE t

RECURSIVE TrimEnd(_)
TrimEnd(t) ==
    IF t # <<>> /\ t[Len(t)] = " " THEN TrimEnd(SubSeq(t, 1, Len(t) - 1)) ELSE t

Trim(t) == TrimEnd(TrimStart(t))

LowerTok(tok) == IF tok = "PH" THEN "ph" ELSE IF tok = "A" THEN "a" ELSE tok

ToLowerCase(t) == [i \in 1..Len(t) |-> LowerTok(t[i])]

IncludesPlaceholder(t) == \E i \in 1..Len(t) : t[i] = "ph"

(* Mutant of Truthy: the `if (userAnswer)` test dropped. *)
TruthyAlways(t) == TRUE

(* `if (userAnswer)`, `!transcribedText`: null and the empty text are falsy. *)
Truthy(t) == t # Null /\ t # <<>>

(* Mutant of isInvalid: the length is taken without trimming. *)
isInvalidUntrimmed(t) ==
    \/ ~Truthy(t)
    \/ TextLength(t) < MinAnswerLength
    \/ IncludesPlaceholder(ToLowerCase(t))

(* OnboardingModal.tsx:244 *)
isInvalid(t) ==
    \/ ~Truthy(t)
    \/ TextLength(Trim(t)) < MinAnswerLength
    \/ IncludesPlaceholder(ToLowerCase(t))

(* What the transcription service may answer: degenerate texts and real    *)
(* answers.                                                                 *)
DegenerateTexts ==
    { <<>>,
      <<" ", " ">>,
      <<"a", "a", "a", "a">>,
      <<" ", "a", "a", "a", "a", " ">>,
      <<"PH">>,
      <<"a", "a", " ", "ph", " ", "a">> }

ShortAnswer == <<"a", "a", "a", "a", "a">>

LongAnswer == <<"A", "a", " ", "a", "a", "a">>

(***************************************************************************)
(* Transcript turns (types.ts TranscriptTurn) and the values the remote     *)
(* Turn Generator may put into its JSON answer.                             *)
(***************************************************************************)
Questions == {"q1", "q2"}

Feedbacks == {"f1"}

AllScores(v) ==
    [relevance |-> v, structure |-> v, metrics |-> v, alignment |-> v,
     communication |-> v]

PlaceholderScores == AllScores(0)

PlaceholderFeedback == "Analyzing..."

PlaceholderSource == "JD"

Sources == {"JD", "CandidateProfile", "Mixed"}

Arbitrary == generator = "arbitrary"

TurnBound == IF Arbitrary THEN MaxTurns ELSE MaxLongTurns

JsonQuestions == IF Arbitrary THEN Questions ELSE {"q1"}

(* The schema's enum is a request to the remote model, not a check of the   *)
(* client: a source outside it may come back.                               *)
JsonSources == IF Arbitrary THEN {"Mixed", "Other"} ELSE {"Mixed"}

(* Scores are INTEGER in the schema, which sets no range. *)
JsonScores == IF Arbitrary THEN {AllScores(6)} ELSE {AllScores(3)}

JsonNumbers(sent) == IF Arbitrary THEN 1..MaxQNum ELSE {Len(sent) + 1}

JsonSummaries == {"summary"}

ServiceTexts ==
    IF Arbitrary THEN DegenerateTexts \cup {ShortAnswer}
    ELSE {<<>>, <<"PH">>, ShortAnswer, LongAnswer}

(* OnboardingModal.tsx:153-160 *)
NewTurn(number, question, answer) ==
    [questionNumber |-> number,
     question |-> question,
     candidateAnswer |-> answer,
     quickFeedback |-> PlaceholderFeedback,
     scores |-> PlaceholderScores,
     sourceOfQuestion |-> PlaceholderSource]

(* The JSON object a remote answer may parse to.  No field of the response  *)
(* schema is required, so each of them may be missing.  A generator that    *)
(* follows its instructions numbers the questions 1, 2, 3, ..., analyses    *)
(* every answer and sends either a next question or a final report; the     *)
(* "finishing" one sends the report at the latest for answer MaxTurns.      *)
JsonResponses(sent, isFirst) ==
    { j \in [interviewComplete : BOOLEAN,
             nextQuestion : {None} \cup
                 {Some(q) : q \in [questionNumber : JsonNumbers(sent),
                                   question : JsonQuestions,
                                   sourceOfQuestion : JsonSources]},
             currentAnswerAnalysis : {None} \cup
                 {Some(a) : a \in [quickFeedback : Feedbacks, scores : JsonScores]},
             finalReport : {None} \cup
                 {Some(r) : r \in [summary : JsonSummaries]}] :
        Arbitrary \/
          /\ (j.currentAnswerAnalysis = None) <=> isFirst
          /\ (j.finalReport # None) <=> j.interviewComplete
          /\ (j.nextQuestion = None) <=> j.interviewComplete
          /\ isFirst => ~j.interviewComplete
          /\ (generator = "finishing" /\ Len(sent) >= MaxTurns) => j.interviewComplete }

(***************************************************************************)
(* The Gemini service clients (services/geminiService).                     *)
(***************************************************************************)
isFirstTurn(tr, userAnswer) == Len(tr) = 0 /\ userAnswer = Null

(* Mutant of finalTranscript: the first turn is patched, not the last. *)
finalTranscriptFirstIndex(tr, json) ==
    [i \in 1..Len(tr) |->
        IF i = 1 /\ json.currentAnswerAnalysis # None
        THEN [tr[i] EXCEPT !.quickFeedback = json.currentAnswerAnalysis[1].quickFeedback,
                           !.scores = json.currentAnswerAnalysis[1].scores]
        ELSE tr[i]]

(* getNextStep: the final transcript of a report, last turn patched. *)
finalTranscript(tr, json) ==
    [i \in 1..Len(tr) |->
        IF i = Len(tr) /\ json.currentAnswerAnalysis # None
        THEN [tr[i] EXCEPT !.quickFeedback = json.currentAnswerAnalysis[1].quickFeedback,
                           !.scores = json.currentAnswerAnalysis[1].scores]
        ELSE tr[i]]

Threw == [threw |-> TRUE, interviewComplete |-> FALSE, nextQuestion |-> None,
          currentAnswerAnalysis |-> None, finalReport |-> None]

(* getNextStep: what the client makes of the parsed JSON.  Reading         *)
(* nextQuestion.sourceOfQuestion of a missing nextQuestion throws.          *)
getNextStepResult(json, tr, isFirst) ==
    IF json.interviewComplete /\ json.finalReport # None
    THEN [threw |-> FALSE, interviewComplete |-> TRUE, nextQuestion |-> None,
          currentAnswerAnalysis |-> None,
          finalReport |-> Some([summary |-> json.finalReport[1].summary,
                                transcript |-> finalTranscript(tr, json)])]
    ELSE IF ~isFirst /\ json.currentAnswerAnalysis # None /\ json.nextQuestion = None
    THEN Threw
    ELSE [threw |-> FALSE, interviewComplete |-> FALSE,
          nextQuestion |-> json.nextQuestion,
          currentAnswerAnalysis |->
              IF ~isFirst /\ json.currentAnswerAnalysis # None
              THEN Some([quickFeedback |-> json.currentAnswerAnalysis[1].quickFeedback,
                         scores |-> json.currentAnswerAnalysis[1].scores,
                         sourceOfQuestion |-> json.nextQuestion[1].sourceOfQuestion])
              ELSE None,
          finalReport |-> None]

(* retryOperation: attempt number i (from 0) failed; is the error rethrown? *)
LastAttempt(i) == i = DefaultRetries - 1

(***************************************************************************)
(* Pending asynchronous work.                                               *)
(***************************************************************************)
Task(kind, tr, answer, question, attempt, blob) ==
    [kind |-> kind, transcript |-> tr, userAnswer |-> answer,
     question |-> question, attempt |-> attempt, blob |-> blob]

RemoveAt(s, i) == SubSeq(s, 1, i - 1) \o SubSeq(s, i + 1, Len(s))

InFlight(kind) == {i \in 1..Len(tasks) : tasks[i].kind = kind}

Event(name) ==
    [name |-> name, text |-> <<>>, blob |-> 0, analysis |-> None, sent |-> <<>>,
     complete |-> FALSE]

ReturnEvent(name, json, sent, response) ==
    [Event(name) EXCEPT !.analysis = json.currentAnswerAnalysis, !.sent = sent,
                        !.complete = response.interviewComplete]

HarnessIdle == [pc |-> "idle", blob |-> 0, mime |-> "", attempt |-> 0,
                requests |-> 0, data |-> 0, result |-> Null]

(***************************************************************************)
(* InterviewView (the orchestrator).                                        *)
(***************************************************************************)
NoError == "null"

MicrophoneError ==
    "Microphone access is required for the interview. Please allow access in your browser settings and refresh the page."

InterviewError == "An error occurred during the interview. Please try again."

NotHeardWarning == "I couldn't hear a valid answer. Please try answering again."

TranscribeWarning == "There was an error transcribing your answer. Please try again."

NoUser == "null"

(* The signed-in user whose session this is: the `user` that the            *)
(* handleInterviewFinish handed to InterviewView as onFinish closes over.   *)
SessionUser == "u1"

InitSession(g, pending) ==
    /\ generator = g
    /\ status = "initializing"
    /\ transcript = <<>>
    /\ currentQuestion = ""
    /\ questionNumber = 0
    /\ permissionError = NoError
    /\ transcriptionError = NoError
    /\ recorder = "null"
    /\ stream = "none"
    /\ mounted = TRUE
    /\ tasks = pending
    /\ interviewReport = None
    /\ flowView = "interview"
    /\ activeFeature = "interview"
    /\ user = SessionUser
    /\ saved = <<>>
    /\ finishCount = 0
    /\ genIssued = 0
    /\ nullCalls = 0
    /\ firstRemote = "none"
    /\ answered = 0
    /\ failedInRow = "none"
    /\ issued = ""
    /\ ev = Event("mount")

(* A state setter of the component (setStatus, setTranscript, ...): React   *)
(* drops the update once the component is unmounted.                        *)
SetState(value, current) == IF mounted THEN value ELSE current

(* Mutant of processNextStepRef: the ref is never refreshed and keeps the   *)
(* processNextStep of the first render.                                     *)
firstRenderClosure == [transcript |-> <<>>, questionNumber |-> 0, currentQuestion |-> ""]

(* processNextStepRef.current: the processNextStep of the latest render,    *)
(* which closes over that render's transcript, questionNumber and           *)
(* currentQuestion.                                                         *)
processNextStepRef ==
    [transcript |-> transcript, questionNumber |-> questionNumber,
     currentQuestion |-> currentQuestion]

(* Mutant of AnswerForApi: the answer is not handed on. *)
AnswerForApiNull(userAnswer) == Null

(* processNextStep line 168: the answer handed to getNextStep. *)
AnswerForApi(userAnswer) == userAnswer

(* The first remote call of the session. *)
FirstRemoteAfter(call) == IF firstRemote = "none" THEN call ELSE firstRemote

(* processNextStep up to its first await: the turn for the answer is        *)
(* appended and getNextStep is called.  `rest` is the other pending work.   *)
processNextStep(userAnswer, rest) ==
    LET c == processNextStepRef
        transcriptForApi ==
            IF Truthy(userAnswer)
            THEN Append(c.transcript,
                        NewTurn(c.questionNumber, c.currentQuestion, userAnswer))
            ELSE c.transcript
    IN  /\ status' = SetState(IF Truthy(userAnswer) THEN "processing_answer"
                                                    ELSE "generating_question", status)
        /\ transcript' = IF Truthy(userAnswer) THEN SetState(transcriptForApi, transcript)
                                               ELSE transcript
        /\ tasks' = Append(rest, Task("getNextStep", transcriptForApi,
                                      AnswerForApi(userAnswer), "", 0, 0))
        /\ genIssued' = genIssued + 1
        /\ nullCalls' = IF AnswerForApi(userAnswer) = Null THEN nullCalls + 1
                                                           ELSE nullCalls
        /\ firstRemote' = FirstRemoteAfter(IF AnswerForApi(userAnswer) = Null
                                           THEN "getNextStep(null)"
                                           ELSE "getNextStep(answer)")
        /\ answered' = IF Truthy(userAnswer) THEN answered + 1 ELSE answered

(* initializeInterview: getUserMedia resolved. *)
MicrophoneGranted ==
    \E i \in InFlight("getUserMedia") :
    /\ tasks[i].kind = "getUserMedia"
    /\ stream' = "live"
    /\ recorder' = "inactive"
    /\ processNextStep(Null, RemoveAt(tasks, i))
    /\ ev' = Event("getUserMedia.granted")
    /\ UNCHANGED <<generator, currentQuestion, questionNumber, permissionError,
                   transcriptionError, mounted, appVars, finishCount, failedInRow, issued, h>>

(* Mutant of MicrophoneDenied: the loop is started although the microphone  *)
(* was refused.                                                             *)
MicrophoneDeniedLoopStarts ==
    \E i \in InFlight("getUserMedia") :
    /\ tasks[i].kind = "getUserMedia"
    /\ permissionError' = SetState(MicrophoneError, permissionError)
    /\ processNextStep(Null, RemoveAt(tasks, i))
    /\ ev' = Event("getUserMedia.denied")
    /\ UNCHANGED <<generator, currentQuestion, questionNumber, transcriptionError,
                   recorder, stream, mounted, appVars, finishCount, failedInRow, issued, h>>

(* initializeInterview: getUserMedia rejected (no stream), or the           *)
(* MediaRecorder constructor threw on the stream it was given.              *)
MicrophoneDenied ==
    \E i \in InFlight("getUserMedia") :
    /\ tasks[i].kind = "getUserMedia"
    /\ permissionError' = SetState(MicrophoneError, permissionError)
    /\ \E s \in {"none", "live"} : stream' = s
    /\ tasks' = RemoveAt(tasks, i)
    /\ ev' = Event("getUserMedia.denied")
    /\ UNCHANGED <<generator, status, transcript, currentQuestion, questionNumber,
                   transcriptionError, recorder, mounted, appVars, finishCount,
                   callVars, failedInRow, issued, h>>

(* Mutant of PatchLast: the first turn is patched, not the last. *)
PatchFirst(prev, analysis) ==
    [k \in 1..Len(prev) |->
        IF k = 1
        THEN [prev[k] EXCEPT !.quickFeedback = analysis.quickFeedback,
                             !.scores = analysis.scores,
                             !.sourceOfQuestion = analysis.sourceOfQuestion]
        ELSE prev[k]]

(* setTranscript(prev => ...) of processNextStep: the last turn patched. *)
PatchLast(prev, analysis) ==
    [k \in 1..Len(prev) |->
        IF k = Len(prev)
        THEN [prev[k] EXCEPT !.quickFeedback = analysis.quickFeedback,
                             !.scores = analysis.scores,
                             !.sourceOfQuestion = analysis.sourceOfQuestion]
        ELSE prev[k]]

(* Mutant of EndsInterview: the nominal question count ends the interview. *)
EndsInterviewAtTotal(response) ==
    response.interviewComplete \/ questionNumber >= TOTAL_QUESTIONS

(* processNextStep line 170: does this result end the interview? *)
EndsInterview(response) == response.interviewComplete

(* Mutant of AttemptFailed: the catch of processNextStep swallows the error. *)
AttemptFailedSilently(i) ==
    IF LastAttempt(tasks[i].attempt)
    THEN /\ tasks' = RemoveAt(tasks, i)
         /\ UNCHANGED permissionError
    ELSE /\ tasks' = [tasks EXCEPT ![i].attempt = @ + 1]
         /\ UNCHANGED permissionError

(* retryOperation: an attempt of the call in tasks[i] failed.  The last     *)
(* attempt's error reaches the catch of processNextStep.                    *)
AttemptFailed(i) ==
    IF LastAttempt(tasks[i].attempt)
    THEN /\ permissionError' = SetState(InterviewError, permissionError)
         /\ tasks' = RemoveAt(tasks, i)
    ELSE /\ tasks' = [tasks EXCEPT ![i].attempt = @ + 1]
         /\ UNCHANGED permissionError

(* The step recorded for a failed attempt: the call failed, or it is tried  *)
(* again.                                                                   *)
FailureEvent(i, failed, retry) ==
    Event(IF LastAttempt(tasks[i].attempt) THEN failed ELSE retry)

(* App.handleInterviewFinish: the report is shown and, for a signed-in      *)
(* user, written to the database.  `report` is what onFinish was given:     *)
(* response.finalReport, present or not.                                    *)
handleInterviewFinish(report, closureUser) ==
    /\ interviewReport' = report
    /\ flowView' = "report"
    /\ saved' = IF closureUser # NoUser THEN Append(saved, report) ELSE saved

(* processNextStep after `await getNextStep`, the remote answer parsed. *)
GetNextStepReturns ==
    \E i \in InFlight("getNextStep") :
    /\ tasks[i].kind = "getNextStep"
    /\ \E json \in JsonResponses(tasks[i].transcript,
                                 isFirstTurn(tasks[i].transcript, tasks[i].userAnswer)) :
        LET response == getNextStepResult(json, tasks[i].transcript,
                            isFirstTurn(tasks[i].transcript, tasks[i].userAnswer))
        IN  IF response.threw
            THEN /\ AttemptFailed(i)
                 /\ ev' = FailureEvent(i, "getNextStep.threw", "getNextStep.retry")
                 /\ UNCHANGED <<status, transcript, currentQuestion, questionNumber,
                                interviewReport, flowView, saved, finishCount, mounted,
                                issued>>
            ELSE IF EndsInterview(response)
            THEN \* onFinish(response.finalReport): the report view replaces
                 \* the interview view
                 /\ handleInterviewFinish(response.finalReport, SessionUser)
                 /\ finishCount' = finishCount + 1
                 /\ mounted' = FALSE
                 /\ tasks' = RemoveAt(tasks, i)
                 /\ ev' = ReturnEvent("getNextStep.complete", json, tasks[i].transcript, response)
                 /\ UNCHANGED <<status, transcript, currentQuestion, questionNumber,
                                permissionError, issued>>
            ELSE /\ transcript' =
                        IF response.currentAnswerAnalysis # None
                        THEN SetState(PatchLast(transcript, response.currentAnswerAnalysis[1]),
                                      transcript)
                        ELSE transcript
                 /\ IF response.nextQuestion = None
                    THEN \* destructuring undefined throws: caught
                         /\ permissionError' = SetState(InterviewError, permissionError)
                         /\ tasks' = RemoveAt(tasks, i)
                         /\ ev' = ReturnEvent("getNextStep.noQuestion", json, tasks[i].transcript, response)
                         /\ UNCHANGED <<status, currentQuestion, questionNumber, issued>>
                    ELSE /\ currentQuestion' =
                                SetState(response.nextQuestion[1].question, currentQuestion)
                         /\ questionNumber' =
                                SetState(response.nextQuestion[1].questionNumber, questionNumber)
                         /\ issued' =
                                SetState(response.nextQuestion[1].sourceOfQuestion, issued)
                         /\ status' = SetState("generating_audio", status)
                         /\ tasks' = Append(RemoveAt(tasks, i),
                                Task("generateSpeech", <<>>, Null,
                                     response.nextQuestion[1].question, 0, 0))
                         /\ ev' = ReturnEvent("getNextStep.question", json, tasks[i].transcript, response)
                         /\ UNCHANGED permissionError
                 /\ UNCHANGED <<interviewReport, flowView, saved, finishCount, mounted>>
    /\ UNCHANGED <<generator, transcriptionError, recorder, stream, activeFeature, user,
                   callVars, failedInRow, h>>

(* The remote call of getNextStep failed (network, API error, bad JSON). *)
GetNextStepFails ==
    \E i \in InFlight("getNextStep") :
    /\ tasks[i].kind = "getNextStep"
    /\ AttemptFailed(i)
    /\ ev' = FailureEvent(i, "getNextStep.failed", "getNextStep.retry")
    /\ UNCHANGED <<generator, status, transcript, currentQuestion, questionNumber,
                   transcriptionError, recorder, stream, mounted, appVars, finishCount,
                   callVars, failedInRow, issued, h>>

(* processNextStep after `await generateSpeech`. *)
GenerateSpeechReturns ==
    \E i \in InFlight("generateSpeech") :
    /\ tasks[i].kind = "generateSpeech"
    /\ status' = SetState("speaking_question", status)
    /\ tasks' = Append(RemoveAt(tasks, i),
                       Task("playAudio", <<>>, Null, tasks[i].question, 0, 0))
    /\ ev' = Event("generateSpeech.returned")
    /\ UNCHANGED <<generator, transcript, currentQuestion, questionNumber,
                   permissionError, transcriptionError, recorder, stream, mounted,
                   appVars, finishCount, callVars, failedInRow, issued, h>>

(* generateSpeech: the remote call failed or returned no audio. *)
GenerateSpeechFails ==
    \E i \in InFlight("generateSpeech") :
    /\ tasks[i].kind = "generateSpeech"
    /\ AttemptFailed(i)
    /\ ev' = FailureEvent(i, "generateSpeech.failed", "generateSpeech.retry")
    /\ UNCHANGED <<generator, status, transcript, currentQuestion, questionNumber,
                   transcriptionError, recorder, stream, mounted, appVars, finishCount,
                   callVars, failedInRow, issued, h>>

(* processNextStep after `await playAudio`: source.onended fired. *)
PlaybackEnds ==
    \E i \in InFlight("playAudio") :
    /\ tasks[i].kind = "playAudio"
    /\ status' = SetState("listening", status)
    /\ recorder' = "recording"
    /\ tasks' = RemoveAt(tasks, i)
    /\ ev' = Event("playAudio.ended")
    /\ UNCHANGED <<generator, transcript, currentQuestion, questionNumber,
                   permissionError, transcriptionError, stream, mounted, appVars,
                   finishCount, callVars, failedInRow, issued, h>>

(* playAudio threw (the audio could not be decoded or played). *)
PlaybackFails ==
    \E i \in InFlight("playAudio") :
    /\ tasks[i].kind = "playAudio"
    /\ permissionError' = SetState(InterviewError, permissionError)
    /\ tasks' = RemoveAt(tasks, i)
    /\ ev' = Event("playAudio.failed")
    /\ UNCHANGED <<generator, status, transcript, currentQuestion, questionNumber,
                   transcriptionError, recorder, stream, mounted, appVars, finishCount,
                   callVars, failedInRow, issued, h>>

(* Mutant of CanStop: the recorder's state is not looked at. *)
CanStopInAnyState == recorder # "null"

(* stopRecordingAndProcess line 213: the guard of mediaRecorder.stop(). *)
CanStop == recorder = "recording"

(* The stop button, line 338: disabled={status !== 'listening'} *)
StopDisabled == status # "listening"

(* stopRecordingAndProcess: a stop signal reaches the mounted view.  Under  *)
(* the guard the recorder delivers its data and queues the stop event;      *)
(* otherwise the signal is ignored.                                         *)
StopRecordingAndProcess ==
    /\ mounted
    /\ IF CanStop
       THEN /\ Len(transcript) < TurnBound
            /\ recorder' = "inactive"
            /\ \E size \in 0..MaxBlob :
                tasks' = Append(tasks, Task("onstop", <<>>, Null, "", 0, size))
            /\ ev' = Event("stop")
       ELSE UNCHANGED <<recorder, tasks, ev>>
    /\ UNCHANGED <<generator, status, transcript, currentQuestion, questionNumber,
                   permissionError, transcriptionError, stream, mounted, appVars,
                   finishCount, callVars, failedInRow, issued, h>>

(* InterviewView line 296: the progress shown, Math.round applied. *)
Min(a, b) == IF a < b THEN a ELSE b

progressPercentage ==
    IF questionNumber > 0
    THEN Min(100, (questionNumber * 200 + TOTAL_QUESTIONS) \div (2 * TOTAL_QUESTIONS))
    ELSE 0

(* mediaRecorder.onstop line 235 *)
BlobIsEmpty(size) == size = 0

(* mediaRecorder.onstop up to its first await. *)
OnStop ==
    \E i \in InFlight("onstop") :
    /\ tasks[i].kind = "onstop"
    /\ IF BlobIsEmpty(tasks[i].blob)
       THEN /\ transcriptionError' = SetState(NotHeardWarning, transcriptionError)
            /\ status' = SetState("listening", status)
            /\ recorder' = "recording"
            /\ tasks' = RemoveAt(tasks, i)
            /\ UNCHANGED firstRemote
       ELSE /\ transcriptionError' = SetState(NoError, transcriptionError)
            /\ status' = SetState("transcribing", status)
            /\ tasks' = Append(RemoveAt(tasks, i),
                               Task("transcribeAudio", <<>>, Null, "", 0, tasks[i].blob))
            /\ firstRemote' = FirstRemoteAfter("transcribeAudio")
            /\ UNCHANGED recorder
    /\ ev' = [Event("onstop") EXCEPT !.blob = tasks[i].blob]
    /\ UNCHANGED <<generator, transcript, currentQuestion, questionNumber,
                   permissionError, stream, mounted, appVars, finishCount, genIssued,
                   nullCalls, answered, failedInRow, issued, h>>

(* mediaRecorder.onstop after `await transcribeAudio`. *)
TranscribeAudioReturns ==
    \E i \in InFlight("transcribeAudio") :
    /\ tasks[i].kind = "transcribeAudio"
    /\ \E text \in ServiceTexts :
        /\ IF isInvalid(text)
           THEN /\ transcriptionError' = SetState(NotHeardWarning, transcriptionError)
                /\ status' = SetState("listening", status)
                /\ recorder' = "recording"
                /\ tasks' = RemoveAt(tasks, i)
                /\ UNCHANGED <<transcript, callVars>>
           ELSE /\ processNextStep(text, RemoveAt(tasks, i))
                /\ UNCHANGED <<transcriptionError, recorder>>
        /\ ev' = [Event("transcribeAudio.returned") EXCEPT !.text = text,
                                                            !.blob = tasks[i].blob]
    /\ failedInRow' = "none"
    /\ UNCHANGED <<generator, currentQuestion, questionNumber, permissionError,
                   stream, mounted, appVars, finishCount, issued, h>>

(* Mutant of onstopCatch: a failed transcription ends the session. *)
onstopCatchFails(rest) ==
    /\ permissionError' = SetState(InterviewError, permissionError)
    /\ tasks' = rest
    /\ UNCHANGED <<transcriptionError, status, recorder>>

(* mediaRecorder.onstop, catch (lines 253-258): warn and record again. *)
onstopCatch(rest) ==
    /\ transcriptionError' = SetState(TranscribeWarning, transcriptionError)
    /\ status' = SetState("listening", status)
    /\ recorder' = "recording"
    /\ tasks' = rest
    /\ UNCHANGED permissionError

(* transcribeAudio: an attempt of the remote call failed; the last          *)
(* attempt's error reaches the catch of onstop.                             *)
TranscribeAudioFails ==
    \E i \in InFlight("transcribeAudio") :
    /\ tasks[i].kind = "transcribeAudio"
    /\ IF LastAttempt(tasks[i].attempt)
       THEN /\ onstopCatch(RemoveAt(tasks, i))
            /\ failedInRow' = IF failedInRow = "none" THEN "once" ELSE "again"
       ELSE /\ tasks' = [tasks EXCEPT ![i].attempt = @ + 1]
            /\ UNCHANGED <<transcriptionError, status, recorder, permissionError,
                           failedInRow>>
    /\ ev' = [FailureEvent(i, "transcribeAudio.failed", "transcribeAudio.retry")
                EXCEPT !.blob = tasks[i].blob]
    /\ UNCHANGED <<generator, transcript, currentQuestion, questionNumber,
                   stream, mounted, appVars, finishCount, callVars, issued, h>>

SessionStep ==
    \/ MicrophoneGranted
    \/ MicrophoneDenied
    \/ GetNextStepReturns
    \/ GetNextStepFails
    \/ GenerateSpeechReturns
    \/ GenerateSpeechFails
    \/ PlaybackEnds
    \/ PlaybackFails
    \/ OnStop
    \/ TranscribeAudioReturns
    \/ TranscribeAudioFails
    \/ StopRecordingAndProcess

Generators == {"arbitrary", "sequential"}

(* The interview view has just been mounted: initializeInterview awaits    *)
(* getUserMedia.                                                            *)
Init ==
    /\ \E g \in Generators :
          InitSession(g, <<Task("getUserMedia", <<>>, Null, "", 0, 0)>>)
    /\ h = HarnessIdle

Next == SessionStep

Spec == Init /\ [][Next]_vars

(***************************************************************************)
(* Leaving the interview view while the session runs.  App replaces the    *)
(* view, InterviewView is unmounted (its effect has no cleanup) and the    *)
(* pending work of the session goes on.                                     *)
(***************************************************************************)
OtherFeatures == {"cv", "history"}

(* The header buttons: setActiveFeature to another feature. *)
SwitchFeature ==
    /\ mounted
    /\ activeFeature = "interview"
    /\ \E f \in OtherFeatures : activeFeature' = f
    /\ mounted' = FALSE
    /\ ev' = Event("setActiveFeature")
    /\ UNCHANGED <<generator, status, transcript, currentQuestion, questionNumber,
                   permissionError, transcriptionError, recorder, stream, tasks,
                   interviewReport, flowView, user, saved, finishCount, callVars,
                   failedInRow, issued, h>>

(* App.handleSignout, and the authentication listener it triggers. *)
handleSignout ==
    /\ user # NoUser
    /\ user' = NoUser
    /\ flowView' = "setup"
    /\ interviewReport' = None
    /\ mounted' = FALSE
    /\ ev' = Event("handleSignout")
    /\ UNCHANGED <<generator, status, transcript, currentQuestion, questionNumber,
                   permissionError, transcriptionError, recorder, stream, tasks,
                   activeFeature, saved, finishCount, callVars, failedInRow, issued, h>>

NextLeave ==
    \/ SessionStep
    \/ SwitchFeature
    \/ handleSignout

SpecLeave == Init /\ [][NextLeave]_vars

(***************************************************************************)
(* transcribeAudio called on its own, with any blob.                        *)
(***************************************************************************)
BlobTypes == {"", "audio/webm", "audio/ogg"}

AllTexts == DegenerateTexts \cup {ShortAnswer, LongAnswer}

(* The base64 text of n bytes, as FileReader.readAsDataURL encodes them. *)
Base64Length(n) == 4 * ((n + 2) \div 3)

(* transcribeAudio line 118: audioBlob.type || 'audio/webm' *)
MimeType(type) == IF type = "" THEN "audio/webm" ELSE type

(* transcribeAudio: the blob has been read; retryOperation makes the first  *)
(* attempt, which sends the request.                                        *)
TranscribeAudioReads ==
    /\ h.pc = "call"
    /\ h' = [h EXCEPT !.pc = "request", !.data = Base64Length(h.blob),
                      !.mime = MimeType(h.mime), !.requests = @ + 1]
    /\ UNCHANGED sessionVars

(* transcribeAudio: reader.onerror rejected the promise. *)
TranscribeAudioReadFails ==
    /\ h.pc = "call"
    /\ h' = [h EXCEPT !.pc = "threw"]
    /\ UNCHANGED sessionVars

(* transcribeAudio: the attempt returned response.text || "" *)
TranscribeAudioAnswers ==
    /\ h.pc = "request"
    /\ \E text \in AllTexts : h' = [h EXCEPT !.pc = "returned", !.result = text]
    /\ UNCHANGED sessionVars

(* retryOperation: the attempt failed; the next one sends a new request,    *)
(* the last one's error is rethrown.                                        *)
TranscribeAudioAttemptFails ==
    /\ h.pc = "request"
    /\ h' = IF LastAttempt(h.attempt)
            THEN [h EXCEPT !.pc = "threw"]
            ELSE [h EXCEPT !.attempt = @ + 1, !.requests = @ + 1]
    /\ UNCHANGED sessionVars

InitClient ==
    /\ InitSession("arbitrary", <<>>)
    /\ \E b \in 0..MaxBlob, type \in BlobTypes :
          h = [HarnessIdle EXCEPT !.pc = "call", !.blob = b, !.mime = type]

NextClient ==
    \/ TranscribeAudioReads
    \/ TranscribeAudioReadFails
    \/ TranscribeAudioAnswers
    \/ TranscribeAudioAttemptFails

SpecClient == InitClient /\ [][NextClient]_vars

(***************************************************************************)
(* Properties.                                                              *)
(***************************************************************************)
Last(s) == s[Len(s)]

GetNextStepCalls == {tasks[i] : i \in InFlight("getNextStep")}

(* C1: at most one getNextStep call is in flight at any time. *)
C1_SingleFlight == Cardinality(InFlight("getNextStep")) <= 1

(* C1 witness: the call for the second answer is in flight. *)
C1_Witness == genIssued = 3 /\ Cardinality(InFlight("getNextStep")) = 1

(* C2: the question numbers of the turns of the transcript are 1, 2, 3, ... *)
(* in this order: strictly increasing, no gap, no repeat.                   *)
C2_NumbersConsecutive ==
    \A k \in 1..Len(transcript) : transcript[k].questionNumber = k

(* An exchange has just been completed: the response to an accepted answer  *)
(* has been processed and brought the next question.                        *)
ExchangeCompleted == ev.name = "getNextStep.question" /\ Len(ev.sent) > 0

C4_ReportTranscriptPatched ==
    ev.name = "getNextStep.complete" =>
        /\ interviewReport # None
        /\ LET sent == ev.sent
               final == interviewReport[1].transcript
           IN  /\ Len(final) = Len(sent)
               /\ \A k \in 1..Len(sent) - 1 : final[k] = sent[k]
               /\ Len(sent) > 0 =>
                    /\ Last(final).questionNumber = Last(sent).questionNumber
                    /\ Last(final).question = Last(sent).question
                    /\ Last(final).candidateAnswer = Last(sent).candidateAnswer
                    /\ IF ev.analysis # None
                       THEN /\ Last(final).quickFeedback = ev.analysis[1].quickFeedback
                            /\ Last(final).scores = ev.analysis[1].scores
                       ELSE Last(final) = Last(sent)

(* C4 witness: a report after two answers, the first turn patched earlier,  *)
(* the response carrying the analysis of the second.                        *)
C4_Witness ==
    /\ ev.name = "getNextStep.complete"
    /\ Len(ev.sent) = 2
    /\ ev.analysis # None
    /\ ev.sent[1].quickFeedback = PlaceholderFeedback
    /\ generator = "arbitrary"

(* C5: zero-length audio never reaches the transcription service: the      *)
(* orchestrator never calls transcribeAudio with an empty blob and is back  *)
(* in listening once onstop has seen one, and transcribeAudio sends no      *)
(* request for a zero-byte blob.                                            *)
C5_ZeroLengthNeverSent ==
    /\ \A i \in InFlight("transcribeAudio") : tasks[i].blob > 0
    /\ (ev.name = "onstop" /\ ev.blob = 0) =>
            status = "listening" /\ recorder = "recording"
    /\ h.blob = 0 => h.requests = 0

(* The orchestrator's half of C5, which holds. *)
C5_OrchestratorSkipsEmptyBlob ==
    [][(ev'.name = "onstop" /\ ev'.blob = 0 /\ ev' # ev) =>
            /\ status' = "listening"
            /\ recorder' = "recording"
            /\ InFlight("transcribeAudio")' = {}
            /\ UNCHANGED <<questionNumber, transcript>>]_vars

(* A degenerate transcription: empty, shorter than 5 characters once        *)
(* trimmed, or containing the placeholder phrase in any case.               *)
Degenerate(t) ==
    \/ t = <<>>
    \/ TextLength(Trim(t)) < 5
    \/ \E k \in 1..Len(t) : t[k] \in {"ph", "PH"}

(* C6: a degenerate transcription shows the warning, restarts the           *)
(* recording, issues no getNextStep call and leaves questionNumber,         *)
(* currentQuestion and the transcript unchanged.                            *)
C6_DegenerateRetries ==
    [][(ev'.name = "transcribeAudio.returned" /\ Degenerate(ev'.text)) =>
            /\ transcriptionError' = NotHeardWarning
            /\ status' = "listening"
            /\ recorder' = "recording"
            /\ genIssued' = genIssued
            /\ InFlight("getNextStep")' = {}
            /\ UNCHANGED <<questionNumber, currentQuestion, transcript>>]_vars

(* C6 witness: a text of six characters, four once trimmed, was rejected.   *)
C6_Witness ==
    /\ ev.name = "transcribeAudio.returned"
    /\ ev.text = <<" ", "a", "a", "a", "a", " ">>
    /\ status = "listening"
    /\ transcriptionError = NotHeardWarning

FirstQuestionPending ==
    /\ answered = 0
    /\ currentQuestion # ""
    /\ permissionError = NoError

GetNextStepResults ==
    {"getNextStep.complete", "getNextStep.question", "getNextStep.noQuestion"}

(* C10: onFinish is called at most once, and exactly when a getNextStep     *)
(* result has interviewComplete; nothing is pending or recorded after it;   *)
(* the nominal TOTAL_QUESTIONS only bounds the progress shown.              *)
C10_CompletionFlagDecides ==
    /\ finishCount <= 1
    /\ finishCount = 1 <=> interviewReport # None
    /\ finishCount = 1 <=> ev.name = "getNextStep.complete"
    /\ ev.name \in GetNextStepResults =>
            (ev.complete <=> ev.name = "getNextStep.complete")
    /\ finishCount = 1 =>
            tasks = <<>> /\ recorder = "inactive" /\ flowView = "report"
    /\ finishCount = 0 => flowView = "interview"
    /\ progressPercentage \in 0..100
    /\ questionNumber >= TOTAL_QUESTIONS => progressPercentage = 100

(* C10 witness: a report delivered after more than TOTAL_QUESTIONS answers. *)
C10_Witness ==
    /\ finishCount = 1
    /\ interviewReport # None
    /\ Len(interviewReport[1].transcript) > TOTAL_QUESTIONS

(* A report delivered after fewer than TOTAL_QUESTIONS answers. *)
C10_FinishesEarly ==
    /\ finishCount = 1
    /\ interviewReport # None
    /\ Len(interviewReport[1].transcript) < TOTAL_QUESTIONS - 1

(* The session is in its terminal Failed state: the error view is shown. *)
Failed == permissionError # NoError

(* The steps in which a turn-generation, speech-synthesis or playback call  *)
(* fails.                                                                   *)
FailureEvents ==
    {"getNextStep.failed", "getNextStep.threw", "getNextStep.noQuestion",
     "generateSpeech.failed", "playAudio.failed"}

(* C11: a failed getNextStep, generateSpeech or playAudio call leaves the   *)
(* session Failed with the interview error message; a Failed session has no *)
(* call in flight and no event queued, its recorder is not recording and a  *)
(* stop signal finds its guard closed, so that no step of the session       *)
(* changes anything any more; no report is delivered.                       *)
C11_FailureIsTerminal ==
    /\ ev.name \in FailureEvents => permissionError = InterviewError
    /\ Failed =>
        /\ mounted
        /\ tasks = <<>>
        /\ recorder # "recording"
        /\ ~CanStop
        /\ finishCount = 0
        /\ ~ENABLED <<SessionStep>>_vars

(* C11 witness: the speech for the second question could not be generated. *)
C11_Witness ==
    /\ ev.name = "generateSpeech.failed"
    /\ permissionError = InterviewError
    /\ answered = 1

(* C12: when the microphone is refused the session is Failed with the       *)
(* microphone message, still initializing, and has never made a getNextStep,*)
(* generateSpeech or transcribeAudio call, nor has any pending.             *)
C12_MicrophoneDeniedBeforeLoop ==
    permissionError = MicrophoneError =>
        /\ status = "initializing"
        /\ recorder = "null"
        /\ genIssued = 0
        /\ firstRemote = "none"
        /\ tasks = <<>>
        /\ transcript = <<>>
        /\ ~ENABLED <<SessionStep>>_vars

(* C12 witness: getUserMedia was refused. *)
C12_Witness ==
    /\ ev.name = "getUserMedia.denied"
    /\ permissionError = MicrophoneError
    /\ stream = "none"

(* C13: a failed transcribeAudio call does not fail the session: the        *)
(* warning is shown, the recorder records again for the same question, no   *)
(* getNextStep call is issued and questionNumber, currentQuestion and the   *)
(* transcript are unchanged.                                                *)
C13_TranscriptionFailureRetries ==
    [][ev'.name = "transcribeAudio.failed" =>
            /\ permissionError' = NoError
            /\ transcriptionError' = TranscribeWarning
            /\ status' = "listening"
            /\ recorder' = "recording"
            /\ tasks' = <<>>
            /\ genIssued' = genIssued
            /\ UNCHANGED <<questionNumber, currentQuestion, transcript>>]_vars

(* C13 witness: the second transcription in a row has failed and the        *)
(* session records again.                                                   *)
C13_Witness ==
    /\ ev.name = "transcribeAudio.failed"
    /\ failedInRow = "again"
    /\ status = "listening"
    /\ recorder = "recording"
    /\ permissionError = NoError

(* C14: outside the listening status the stop button is disabled and the    *)
(* guard of stopRecordingAndProcess is closed; a stop event is queued, and  *)
(* so a transcription started, only from the listening status.              *)
C14_StopOnlyWhileListening ==
    [][/\ status # "listening" => StopDisabled /\ ~CanStop
       /\ Failed => ~CanStop
       /\ Cardinality(InFlight("onstop"))' > Cardinality(InFlight("onstop")) =>
            status = "listening" /\ ~StopDisabled /\ ev'.name = "stop"
       /\ (status # "listening" /\ ev'.name = "stop") => UNCHANGED sessionVars]_vars

(* C14 witness: a stop signal may arrive while the answer is transcribed. *)
C14_Witness ==
    /\ status = "transcribing"
    /\ mounted
    /\ ~CanStop
    /\ ENABLED StopRecordingAndProcess
    /\ InFlight("transcribeAudio") # {}

(* C15: the result that brings the next question after an answer carries    *)
(* the analysis of that answer, and the result of the first call patches    *)
(* nothing; so once the following question is current no answered turn      *)
(* still has the placeholder feedback or the placeholder scores.            *)
C15_AnalysisWithEveryQuestion ==
    /\ (ev.name = "getNextStep.question" /\ Len(ev.sent) = 0) => transcript = <<>>
    /\ ExchangeCompleted =>
        /\ ev.analysis # None
        /\ \A k \in 1..Len(transcript) :
            /\ transcript[k].quickFeedback # PlaceholderFeedback
            /\ transcript[k].scores # PlaceholderScores

(* Scores as the response format defines them: each of them in 1..5. *)
ScoresInRange(scores) == \A f \in DOMAIN scores : scores[f] \in 1..5

(* The turn holds no value that a well-formed response cannot carry. *)
WellFormedTurn(turn) ==
    /\ turn.sourceOfQuestion \in Sources
    /\ turn.scores = PlaceholderScores \/ ScoresInRange(turn.scores)

(* C16: no score outside 1..5 and no source outside JD, CandidateProfile,   *)
(* Mixed gets into the session transcript or into the report, and the       *)
(* response to an answer whose analysis has such a score is never accepted. *)
C16_NoMalformedValueCoerced ==
    /\ \A k \in 1..Len(transcript) : WellFormedTurn(transcript[k])
    /\ interviewReport # None =>
            \A k \in 1..Len(interviewReport[1].transcript) :
                WellFormedTurn(interviewReport[1].transcript[k])
    /\ (Len(ev.sent) > 0 /\ ev.analysis # None /\ ~ScoresInRange(ev.analysis[1].scores)) =>
            ev.name \notin {"getNextStep.question", "getNextStep.complete"}

(* The steps in which retryOperation makes a further attempt. *)
RetryEvents ==
    {"getNextStep.retry", "generateSpeech.retry", "transcribeAudio.retry"}

(* C17: every call in flight is at its first remote attempt and no failed   *)
(* attempt is followed by another one inside the client.                    *)
C17_OneAttemptPerCall ==
    /\ \A i \in 1..Len(tasks) : tasks[i].attempt = 0
    /\ ev.name \notin RetryEvents

(* The interview view of the session has been left: another feature is      *)
(* shown or the user has signed out.                                        *)
Left == activeFeature # "interview" \/ user = NoUser

(* The calls and the playback of the interview loop. *)
LoopWork == {"getNextStep", "generateSpeech", "playAudio", "transcribeAudio"}

RemoteCalls == {"getNextStep", "generateSpeech", "transcribeAudio"}

(* The view has just been left while a remote call was in flight. *)
LeftDuringCall ==
    /\ Left
    /\ ev.name \in {"setActiveFeature", "handleSignout"}
    /\ \E i \in 1..Len(tasks) : tasks[i].kind \in RemoteCalls

(* C18: when the view has been left with a remote call in flight, the late  *)
(* response is discarded: the session issues no further remote call, plays  *)
(* no audio, starts no recording, and neither delivers nor saves a report.  *)
C18_LateResponseDiscarded ==
    [][LeftDuringCall =>
        /\ genIssued' = genIssued
        /\ \A kind \in LoopWork :
                Cardinality(InFlight(kind))' <= Cardinality(InFlight(kind))
        /\ recorder' = "recording" => recorder = "recording"
        /\ finishCount' = finishCount
        /\ saved' = saved
        /\ interviewReport' # None => interviewReport' = interviewReport]_vars

(* The session has ended: completed, failed, or its view left. *)
SessionEnded == finishCount > 0 \/ Failed \/ ~mounted

(* C19: in no state in which the session has ended is the microphone        *)
(* stream still live.                                                       *)
C19_HandleReleasedAtEnd == SessionEnded => stream # "live"

(***************************************************************************)
(* App: the interview flow around the session (setup, interview, report)   *)
(* and the history of persisted reports.  The run of a mounted             *)
(* InterviewView is summed up by the report it hands to onFinish.           *)
(***************************************************************************)
MaxSaved == 2

Features == {"cv", "interview", "history"}

(* Reports as the Turn Generator may return them. *)
AppReports ==
    { [summary |-> "summary", transcript |-> <<>>],
      [summary |-> "summary",
       transcript |-> <<[NewTurn(1, "q1", ShortAnswer) EXCEPT
                            !.quickFeedback = "f1", !.scores = AllScores(3),
                            !.sourceOfQuestion = "Mixed"]>>] }

(* App as it renders: is the InterviewView shown (renderAppContent,         *)
(* renderInterviewFlow)?                                                    *)
InterviewViewShown(feature, view) == feature = "interview" /\ view = "interview"

(* Is the ReportView shown? *)
ReportViewShown ==
    /\ user # NoUser
    /\ activeFeature = "interview"
    /\ flowView = "report"
    /\ interviewReport # None

(* The user is signed in; the database may hold a report of an earlier     *)
(* visit.                                                                   *)
InitApp ==
    /\ generator = "sequential"
    /\ status = "initializing"
    /\ transcript = <<>>
    /\ currentQuestion = ""
    /\ questionNumber = 0
    /\ permissionError = NoError
    /\ transcriptionError = NoError
    /\ recorder = "null"
    /\ stream = "none"
    /\ mounted = FALSE
    /\ tasks = <<>>
    /\ interviewReport = None
    /\ flowView = "setup"
    /\ activeFeature = "cv"
    /\ user = SessionUser
    /\ \E r \in AppReports : saved \in {<<>>, <<Some(r)>>}
    /\ finishCount = 0
    /\ genIssued = 0
    /\ nullCalls = 0
    /\ firstRemote = "none"
    /\ answered = 0
    /\ failedInRow = "none"
    /\ issued = ""
    /\ ev = Event("signin")
    /\ h = HarnessIdle

(* The header buttons: setActiveFeature. *)
setActiveFeature ==
    /\ user # NoUser
    /\ \E f \in Features \ {activeFeature} :
        /\ activeFeature' = f
        /\ mounted' = InterviewViewShown(f, flowView)
    /\ ev' = Event("setActiveFeature")
    /\ UNCHANGED <<generator, status, transcript, currentQuestion, questionNumber,
                   permissionError, transcriptionError, recorder, stream, tasks,
                   interviewReport, flowView, user, saved, finishCount, callVars,
                   failedInRow, issued, h>>

(* App.handleInterviewStart: SetupView hands over the initial state. *)
handleInterviewStart ==
    /\ user # NoUser
    /\ activeFeature = "interview"
    /\ flowView = "setup"
    /\ flowView' = "interview"
    /\ mounted' = TRUE
    /\ ev' = Event("handleInterviewStart")
    /\ UNCHANGED <<generator, status, transcript, currentQuestion, questionNumber,
                   permissionError, transcriptionError, recorder, stream, tasks,
                   interviewReport, activeFeature, user, saved, finishCount, callVars,
                   failedInRow, issued, h>>

(* The mounted InterviewView calls onFinish with the final report. *)
InterviewFinishes ==
    /\ mounted
    /\ Len(saved) < MaxSaved
    /\ \E report \in AppReports : handleInterviewFinish(Some(report), user)
    /\ finishCount' = finishCount + 1
    /\ mounted' = FALSE
    /\ ev' = Event("handleInterviewFinish")
    /\ UNCHANGED <<generator, status, transcript, currentQuestion, questionNumber,
                   permissionError, transcriptionError, recorder, stream, tasks,
                   activeFeature, user, callVars, failedInRow, issued, h>>

(* App.handleInterviewStartOver: the button of the ReportView. *)
handleInterviewStartOver ==
    /\ ReportViewShown
    /\ interviewReport' = None
    /\ flowView' = "setup"
    /\ ev' = Event("handleInterviewStartOver")
    /\ UNCHANGED <<generator, viewVars, tasks, activeFeature, user, saved, finishCount,
                   callVars, failedInRow, issued, h>>

(* Mutant of handleLoadInterview: the loaded report is handled like the     *)
(* report of a live interview.                                              *)
handleLoadInterviewAsFinish ==
    /\ user # NoUser
    /\ activeFeature = "history"
    /\ \E k \in 1..Len(saved) : handleInterviewFinish(saved[k], user)
    /\ activeFeature' = "interview"
    /\ mounted' = FALSE
    /\ ev' = Event("handleLoadInterview")
    /\ UNCHANGED <<generator, status, transcript, currentQuestion, questionNumber,
                   permissionError, transcriptionError, recorder, stream, tasks,
                   user, finishCount, callVars, failedInRow, issued, h>>

(* App.handleLoadInterview: HistoryView hands over a persisted report. *)
handleLoadInterview ==
    /\ user # NoUser
    /\ activeFeature = "history"
    /\ \E k \in 1..Len(saved) : interviewReport' = saved[k]
    /\ flowView' = "report"
    /\ activeFeature' = "interview"
    /\ mounted' = FALSE
    /\ ev' = Event("handleLoadInterview")
    /\ UNCHANGED <<generator, status, transcript, currentQuestion, questionNumber,
                   permissionError, transcriptionError, recorder, stream, tasks,
                   user, saved, finishCount, callVars, failedInRow, issued, h>>

(* ReportView is rendered from the report it is given. *)
ReportViewRenders ==
    /\ ReportViewShown
    /\ ev' = [Event("ReportView.render") EXCEPT !.sent = interviewReport[1].transcript]
    /\ UNCHANGED <<generator, viewVars, tasks, appVars, finishCount, callVars,
                   failedInRow, issued, h>>

(* ReportView.handleDownload: a file is built in the browser. *)
handleDownload ==
    /\ ReportViewShown
    /\ ev' = Event("ReportView.handleDownload")
    /\ UNCHANGED <<generator, viewVars, tasks, appVars, finishCount, callVars,
                   failedInRow, issued, h>>

NextApp ==
    \/ setActiveFeature
    \/ handleInterviewStart
    \/ InterviewFinishes
    \/ handleInterviewStartOver
    \/ handleLoadInterview
    \/ ReportViewRenders
    \/ handleDownload
    \/ handleSignout

SpecApp == InitApp /\ [][NextApp]_vars

(* The steps that show a persisted report. *)
ShowsReport == {"handleLoadInterview", "ReportView.render", "ReportView.handleDownload"}

(* C20: loading a report from the history, rendering the report view and    *)
(* downloading from it write nothing to the database, mount no interview    *)
(* view and issue no call; the only step that saves a report is the finish  *)
(* of a live interview, which saves exactly that report.                    *)
C20_ShowingReportHasNoEffect ==
    [][/\ (ev'.name \in ShowsReport /\ ev' # ev) =>
            /\ saved' = saved
            /\ ~mounted'
            /\ tasks' = tasks
            /\ genIssued' = genIssued
            /\ firstRemote' = firstRemote
       /\ saved' # saved =>
            /\ ev'.name = "handleInterviewFinish"
            /\ mounted
            /\ saved' = Append(saved, interviewReport')]_vars

(* C20 witness: the report of an earlier visit, loaded from the history, is *)
(* shown and has just been rendered; no interview was finished.             *)
C20_Witness ==
    /\ ev.name = "ReportView.render"
    /\ Len(ev.sent) = 1
    /\ finishCount = 0
    /\ saved = <<interviewReport>>
    /\ ReportViewShown

(* After a sign-out the late response of the abandoned session has shown    *)
(* and saved its report.                                                    *)
C18_LateReportSaved ==
    /\ user = NoUser
    /\ ev.name = "getNextStep.complete"
    /\ flowView = "report"
    /\ Len(saved) = 1

(* After the view was left the abandoned session has played its question    *)
(* and records.                                                             *)
C18_RecordsAfterLeaving ==
    /\ Left
    /\ ev.name = "playAudio.ended"
    /\ recorder = "recording"
    /\ stream = "live"

(***************************************************************************)
(* authService: sign-in by approved email, sign-out and the subscription   *)
(* of App to authentication changes.  `h` holds the state of the service:  *)
(* auth.currentUser, the stored session email, the onAuthStateChanged      *)
(* handlers registered (each with the email it captured), the user last    *)
(* handed to the App listener and the asynchronous work pending.           *)
(***************************************************************************)
MaxAuthOps == 3

AuthEmails == {"a@x", " A@X ", "b@x"}

(* getUserProfile line 70: email.toLowerCase().trim() *)
CleanEmail(email) == IF email = " A@X " THEN "a@x" ELSE email

(* The approved_users collection. *)
ApprovedUsers == {"a@x"}

(* Mutant of getUserProfile: every email has a record. *)
getUserProfileAny(email, dbOk) == Some(CleanEmail(email))

(* userService.getUserProfile: the record of the cleaned email, or null    *)
(* when there is none or the database read throws.                          *)
getUserProfile(email, dbOk) ==
    IF dbOk /\ CleanEmail(email) \in ApprovedUsers THEN Some(CleanEmail(email)) ELSE None

AuthNote(name, email) == [name |-> name, email |-> email]

(* The observers of onAuthStateChanged are told the new Firebase user. *)
NotifyObservers(fbUser) ==
    {[kind |-> "authStateChanged", email |-> s, fbUser |-> fbUser] : s \in h.handlers}

AuthWork(kind, email) == [kind |-> kind, email |-> email, fbUser |-> "none"]

(* notifyListeners: the listeners of authStateListeners get the user. *)
notifyListeners(u) == IF h.listening THEN u ELSE h.user

InitAuth ==
    /\ InitSession("arbitrary", <<>>)
    /\ \E s \in {"", "a@x"}, fb \in {"none", "anon"} :
        h = [currentUser |-> fb, stored |-> s, handlers |-> {}, listening |-> FALSE,
             user |-> "", pending |-> {}, ops |-> 0, signedOut |-> FALSE,
             note |-> AuthNote("init", "")]

(* subscribeToAuthChanges (App's effect, run again whenever currentView     *)
(* changes): the handler registered with onAuthStateChanged is never        *)
(* removed and is first called with the current Firebase user.              *)
subscribeToAuthChanges ==
    /\ h.ops < MaxAuthOps
    /\ h' = IF h.stored # ""
            THEN [h EXCEPT !.listening = TRUE, !.ops = @ + 1,
                    !.handlers = @ \cup {h.stored},
                    !.pending = @ \cup {[kind |-> "authStateChanged", email |-> h.stored,
                                         fbUser |-> h.currentUser]},
                    !.note = AuthNote("subscribe", h.stored)]
            ELSE [h EXCEPT !.listening = TRUE, !.ops = @ + 1, !.user = "",
                    !.note = AuthNote("subscribe", "")]
    /\ UNCHANGED sessionVars

(* signInWithEmail up to the lookup: an anonymous Firebase sign-in first    *)
(* when there is no Firebase user, which may fail.                          *)
signInWithEmail ==
    /\ h.ops < MaxAuthOps
    /\ \E email \in AuthEmails, anonOk \in BOOLEAN :
        h' = IF h.currentUser # "none"
             THEN [h EXCEPT !.ops = @ + 1,
                     !.pending = @ \cup {AuthWork("signInWithEmail.lookup", email)},
                     !.note = AuthNote("signIn.started", email)]
             ELSE IF anonOk
             THEN [h EXCEPT !.ops = @ + 1, !.currentUser = "anon",
                     !.pending = @ \cup NotifyObservers("anon")
                                   \cup {AuthWork("signInWithEmail.lookup", email)},
                     !.note = AuthNote("signIn.started", email)]
             ELSE [h EXCEPT !.ops = @ + 1, !.note = AuthNote("signIn.error", email)]
    /\ UNCHANGED sessionVars

(* signInWithEmail after `await getUserProfile`. *)
signInWithEmailLookedUp ==
    /\ \E w \in h.pending, dbOk \in BOOLEAN :
        /\ w.kind = "signInWithEmail.lookup"
        /\ h' = IF getUserProfile(w.email, dbOk) = None
                THEN [h EXCEPT !.pending = @ \ {w},
                        !.note = AuthNote("signIn.denied", w.email)]
                ELSE [h EXCEPT !.pending = @ \ {w}, !.stored = w.email,
                        !.user = notifyListeners(w.email), !.signedOut = FALSE,
                        !.note = AuthNote("signIn.ok", w.email)]
    /\ UNCHANGED sessionVars

(* signInWithGoogle up to the lookup: the popup gave a Google user. *)
signInWithGoogle ==
    /\ h.ops < MaxAuthOps
    /\ \E email \in AuthEmails :
        h' = [h EXCEPT !.ops = @ + 1, !.currentUser = "google",
                !.pending = @ \cup NotifyObservers("google")
                              \cup {AuthWork("signInWithGoogle.lookup", email)},
                !.note = AuthNote("signIn.started", email)]
    /\ UNCHANGED sessionVars

(* signInWithGoogle after `await getUserProfile`: without a record the      *)
(* Firebase user is signed out again.                                       *)
signInWithGoogleLookedUp ==
    /\ \E w \in h.pending, dbOk \in BOOLEAN :
        /\ w.kind = "signInWithGoogle.lookup"
        /\ h' = IF getUserProfile(w.email, dbOk) = None
                THEN [h EXCEPT !.currentUser = "none",
                        !.pending = (@ \ {w}) \cup
                            (IF h.currentUser # "none" THEN NotifyObservers("none") ELSE {}),
                        !.note = AuthNote("signIn.denied", w.email)]
                ELSE [h EXCEPT !.pending = @ \ {w}, !.stored = w.email,
                        !.user = notifyListeners(w.email), !.signedOut = FALSE,
                        !.note = AuthNote("signIn.ok", w.email)]
    /\ UNCHANGED sessionVars

(* signOut up to `await auth.signOut()`: Firebase drops its user and tells  *)
(* the observers.                                                           *)
signOut ==
    /\ h.ops < MaxAuthOps
    /\ h' = [h EXCEPT !.ops = @ + 1, !.currentUser = "none",
                !.pending = @ \cup {AuthWork("signOut.continue", "")} \cup
                    (IF h.currentUser # "none" THEN NotifyObservers("none") ELSE {}),
                !.note = AuthNote("signOut.started", "")]
    /\ UNCHANGED sessionVars

(* signOut after the await: the stored email is removed and the listeners   *)
(* get null.  signOut() has completed.                                      *)
signOutCompletes ==
    /\ \E w \in h.pending :
        /\ w.kind = "signOut.continue"
        /\ h' = [h EXCEPT !.pending = @ \ {w}, !.stored = "",
                    !.user = notifyListeners(""), !.signedOut = TRUE,
                    !.note = AuthNote("signOut.completed", "")]
    /\ UNCHANGED sessionVars

(* The onAuthStateChanged handler of subscribeToAuthChanges is called: with *)
(* a Firebase user it looks up the email it captured; without one it signs  *)
(* in anonymously again while a stored email exists.                        *)
authStateChanged ==
    /\ \E w \in h.pending, anonOk \in BOOLEAN :
        /\ w.kind = "authStateChanged"
        /\ h' = IF w.fbUser # "none"
                THEN [h EXCEPT !.pending = (@ \ {w}) \cup
                            {AuthWork("subscribe.lookup", w.email)},
                        !.note = AuthNote("observer.lookup", w.email)]
                ELSE IF h.stored # ""
                THEN IF anonOk
                     THEN [h EXCEPT !.currentUser = "anon",
                             !.pending = (@ \ {w}) \cup
                                (IF h.currentUser = "none" THEN NotifyObservers("anon")
                                                           ELSE {}),
                             !.note = AuthNote("observer.signInAnonymously", w.email)]
                     ELSE [h EXCEPT !.pending = @ \ {w}, !.user = "",
                             !.note = AuthNote("observer.null", w.email)]
                ELSE [h EXCEPT !.pending = @ \ {w}, !.user = "",
                        !.note = AuthNote("observer.null", w.email)]
    /\ UNCHANGED sessionVars

(* The handler after `await getUserProfile(storedEmail)`. *)
authStateChangedLookedUp ==
    /\ \E w \in h.pending, dbOk \in BOOLEAN :
        /\ w.kind = "subscribe.lookup"
        /\ h' = IF getUserProfile(w.email, dbOk) = None
                THEN [h EXCEPT !.pending = @ \ {w}, !.stored = "", !.user = "",
                        !.note = AuthNote("observer.denied", w.email)]
                ELSE [h EXCEPT !.pending = @ \ {w}, !.user = w.email,
                        !.note = AuthNote("observer.restored", w.email)]
    /\ UNCHANGED sessionVars

NextAuth ==
    \/ subscribeToAuthChanges
    \/ signInWithEmail
    \/ signInWithEmailLookedUp
    \/ signInWithGoogle
    \/ signInWithGoogleLookedUp
    \/ signOut
    \/ signOutCompletes
    \/ authStateChanged
    \/ authStateChangedLookedUp

SpecAuth == InitAuth /\ [][NextAuth]_vars

(* C21: the App listener holds a non-null user, and a session email is      *)
(* stored, only for an email whose record the lookup found; a sign-in whose *)
(* lookup found nothing or failed hands no user to the listener and stores  *)
(* nothing.                                                                 *)
C21_OnlyApprovedSignsIn ==
    [][/\ h'.user # "" => CleanEmail(h'.user) \in ApprovedUsers
       /\ h'.stored # "" => CleanEmail(h'.stored) \in ApprovedUsers
       /\ (h'.user # h.user /\ h'.user # "") =>
            h'.note.name \in {"signIn.ok", "observer.restored"} /\ h'.note.email = h'.user
       /\ (h'.note.name = "signIn.denied" /\ h'.note # h.note) =>
            h'.stored = h.stored /\ h'.user = h.user]_vars

(* C21 witness: the sign-in of an email without record has been denied      *)
(* while nobody is signed in.                                               *)
C21_Witness ==
    /\ h.note = AuthNote("signIn.denied", "b@x")
    /\ h.user = ""
    /\ h.stored = ""
    /\ h.listening

(* An approved email written with capitals and blanks has signed in. *)
C21_SignedIn ==
    /\ h.note = AuthNote("signIn.ok", " A@X ")
    /\ h.user = " A@X "

(* C26: once signOut() has completed and no sign-in has succeeded since,    *)
(* the App listener holds no user.                                          *)
C26_SignedOutStaysSignedOut == h.signedOut => h.user = ""

(***************************************************************************)
(* audioUtils.decodeAudioData on mono 16-bit PCM.  A sample is kept as the *)
(* exact fraction <<numerator, denominator>>: an Int16 divided by 32768 is *)
(* a Float32 without rounding.                                             *)
(***************************************************************************)
MaxPcmBytes == 4

PcmScale == 32768

Bytes == {0, 1, 127, 128, 255}

(* Mutant of Int16At: the two bytes read as an unsigned number. *)
Uint16At(data, i) == data[2 * i - 1] + 256 * data[2 * i]

(* Element i (from 1) of new Int16Array(data.buffer): two's complement of   *)
(* the little-endian pair of bytes.                                         *)
Int16At(data, i) ==
    LET u == (data[2 * i - 1] + 256 * data[2 * i]) % 65536
    IN IF u >= 32768 THEN u - 65536 ELSE u

PcmIdle(data) == [pc |-> "idle", data |-> data, frameCount |-> 0, channelData |-> <<>>]

InitPcm ==
    /\ InitSession("arbitrary", <<>>)
    /\ \E n \in 0..MaxPcmBytes : \E data \in [1..n -> Bytes] : h = PcmIdle(data)

(* decodeAudioData lines 21-23: the Int16Array view needs an even number of *)
(* bytes (a RangeError otherwise); the buffer has frameCount frames.        *)
decodeAudioData ==
    /\ h.pc = "idle"
    /\ h' = IF Len(h.data) % 2 = 1
            THEN [h EXCEPT !.pc = "threw"]
            ELSE [h EXCEPT !.pc = "loop", !.frameCount = Len(h.data) \div 2]
    /\ UNCHANGED sessionVars

(* decodeAudioData lines 27-30, one iteration for the only channel. *)
decodeSample ==
    /\ h.pc = "loop"
    /\ Len(h.channelData) < h.frameCount
    /\ h' = [h EXCEPT !.channelData =
                Append(@, <<Int16At(h.data, Len(h.channelData) + 1), PcmScale>>)]
    /\ UNCHANGED sessionVars

(* decodeAudioData line 32. *)
decodeReturns ==
    /\ h.pc = "loop"
    /\ Len(h.channelData) = h.frameCount
    /\ h' = [h EXCEPT !.pc = "done"]
    /\ UNCHANGED sessionVars

NextPcm ==
    \/ decodeAudioData
    \/ decodeSample
    \/ decodeReturns

SpecPcm == InitPcm /\ [][NextPcm]_vars

(* C22: the decoded buffer has one sample per pair of bytes, sample i is    *)
(* the signed little-endian 16-bit integer of bytes 2i and 2i+1 (from 0)    *)
(* divided by 32768 and lies in [-1, 1); the bytes 00 80 00 00 decode to    *)
(* exactly -1.0 and 0.0.                                                    *)
C22_PcmDecode ==
    h.pc = "done" =>
        /\ Len(h.channelData) * 2 = Len(h.data)
        /\ \A i \in 1..Len(h.channelData) :
            LET lo == h.data[2 * i - 1]
                hi == h.data[2 * i]
                s  == h.channelData[i]
            IN /\ s[2] = 32768
               /\ s[1] = lo + 256 * hi - (IF hi >= 128 THEN 65536 ELSE 0)
               /\ -s[2] <= s[1]
               /\ s[1] < s[2]
        /\ h.data = <<0, 128, 0, 0>> => h.channelData = <<<<-32768, 32768>>, <<0, 32768>>>>

(* C22 witness: the bytes 00 80 00 00 have been decoded. *)
C22_Witness ==
    /\ h.pc = "done"
    /\ h.data = <<0, 128, 0, 0>>
    /\ h.channelData[1][1] = -h.channelData[1][2]

(***************************************************************************)
(* The source of a question: what a Turn says against what the Turn        *)
(* Generator returned with the question the Turn answers.  Only the last   *)
(* Turn is ever written, when the response to its answer arrives; `issued` *)
(* is then still the source that came with the question it answers.        *)
(***************************************************************************)
AnswerAnalysed(e) == Len(e.sent) > 0 /\ e.analysis # None

(* C23: the Turn written when the response to an answer arrives, in the     *)
(* session transcript or in the report, carries the source that was         *)
(* returned with that Turn's own question.                                  *)
C23_TurnCarriesOwnSource ==
    [][/\ (ev'.name = "getNextStep.question" /\ AnswerAnalysed(ev')) =>
            Last(transcript').sourceOfQuestion = issued
       /\ (ev'.name = "getNextStep.complete" /\ AnswerAnalysed(ev')
                /\ interviewReport' # None) =>
            Last(interviewReport'[1].transcript).sourceOfQuestion = issued]_vars

(* C23 for the session transcript alone. *)
C23_TranscriptCarriesOwnSource ==
    [][(ev'.name = "getNextStep.question" /\ AnswerAnalysed(ev')) =>
            Last(transcript').sourceOfQuestion = issued]_vars

(* C23 for the report alone. *)
C23_ReportCarriesOwnSource ==
    [][(ev'.name = "getNextStep.complete" /\ AnswerAnalysed(ev')
            /\ interviewReport' # None) =>
            Last(interviewReport'[1].transcript).sourceOfQuestion = issued]_vars

(* The last Turn of a produced report carries the placeholder source. *)
C23_ReportKeepsPlaceholder ==
    /\ ev.name = "getNextStep.complete"
    /\ AnswerAnalysed(ev)
    /\ interviewReport # None
    /\ Last(interviewReport[1].transcript).sourceOfQuestion = PlaceholderSource
    /\ issued # PlaceholderSource

(* The Turn just patched carries the source returned with the next          *)
(* question, which differs from the one returned with its own.              *)
C23_TurnCarriesLaterSource ==
    /\ ev.name = "getNextStep.question"
    /\ AnswerAnalysed(ev)
    /\ Len(transcript) = 2
    /\ Last(transcript).sourceOfQuestion = issued
    /\ transcript[1].sourceOfQuestion # issued

(***************************************************************************)
(* CVSuggestionsView.handleGenerateFullCV: each request races the          *)
(* generation call against a timer.  `h` holds the state of the view and   *)
(* one record per request: its generation promise, its timer, which of the *)
(* two settled Promise.race and the PDF step that follows a result.        *)
(***************************************************************************)
MaxRequests == 2

TimedOutError == "Generation timed out. The server is busy, please try again."

GenerationError == "generation failed"

PdfError == "Failed to generate the PDF."

NoResult == 0

CvRequest == [generation |-> "pending", timer |-> "armed", race |-> "pending",
              pdf |-> "none"]

CvNote(name, req) == [name |-> name, req |-> req]

(* Mutant of RaceSettled: the race takes every settlement, not the first. *)
RaceNeverSettled(req) == FALSE

(* Promise.race has settled: a later settlement of the other promise is     *)
(* ignored.                                                                 *)
RaceSettled(req) == req.race # "pending"

InitCv ==
    /\ InitSession("arbitrary", <<>>)
    /\ h = [isGeneratingPdf |-> FALSE, error |-> "null", pdfUrl |-> NoResult,
            pdfBlob |-> NoResult, previewResult |-> NoResult, reqs |-> <<>>,
            note |-> CvNote("init", 0)]

(* The button (disabled while isGeneratingPdf) calls handleGenerateFullCV:  *)
(* lines 148-165, to the await of the race.                                 *)
handleGenerateFullCV ==
    /\ ~h.isGeneratingPdf
    /\ Len(h.reqs) < MaxRequests
    /\ h' = [h EXCEPT !.isGeneratingPdf = TRUE, !.error = "null", !.pdfUrl = NoResult,
                !.reqs = Append(@, CvRequest),
                !.note = CvNote("generate", Len(h.reqs) + 1)]
    /\ UNCHANGED sessionVars

(* generateFullCVPreview resolves: when it settles the race, the result is  *)
(* set as the preview and generatePDF is awaited.                           *)
GenerationResolves ==
    /\ \E r \in 1..Len(h.reqs) :
        /\ h.reqs[r].generation = "pending"
        /\ h' = IF RaceSettled(h.reqs[r])
                THEN [h EXCEPT !.reqs[r].generation = "resolved",
                        !.note = CvNote("generation.late", r)]
                ELSE [h EXCEPT !.reqs[r].generation = "resolved",
                        !.reqs[r].race = "generation", !.reqs[r].pdf = "pending",
                        !.previewResult = r,
                        !.note = CvNote("generation.won", r)]
    /\ UNCHANGED sessionVars

(* generateFullCVPreview rejects: when it settles the race, the catch sets  *)
(* its message and the finally block ends the request.                      *)
GenerationRejects ==
    /\ \E r \in 1..Len(h.reqs) :
        /\ h.reqs[r].generation = "pending"
        /\ h' = IF RaceSettled(h.reqs[r])
                THEN [h EXCEPT !.reqs[r].generation = "rejected",
                        !.note = CvNote("generation.late", r)]
                ELSE [h EXCEPT !.reqs[r].generation = "rejected",
                        !.reqs[r].race = "failed",
                        !.error = GenerationError, !.isGeneratingPdf = FALSE,
                        !.note = CvNote("generation.failed", r)]
    /\ UNCHANGED sessionVars

(* The 180000 ms timer of line 156 expires (it is never cleared): when it   *)
(* settles the race, the catch sets the time-out message and the finally    *)
(* block ends the request.                                                  *)
TimerExpires ==
    /\ \E r \in 1..Len(h.reqs) :
        /\ h.reqs[r].timer = "armed"
        /\ h' = IF RaceSettled(h.reqs[r])
                THEN [h EXCEPT !.reqs[r].timer = "expired",
                        !.note = CvNote("timer.late", r)]
                ELSE [h EXCEPT !.reqs[r].timer = "expired",
                        !.reqs[r].race = "timeout",
                        !.error = TimedOutError, !.isGeneratingPdf = FALSE,
                        !.note = CvNote("timer.won", r)]
    /\ UNCHANGED sessionVars

(* pdfService.generatePDF resolves: lines 172-174 and the finally block. *)
GeneratePdfReturns ==
    /\ \E r \in 1..Len(h.reqs) :
        /\ h.reqs[r].pdf = "pending"
        /\ h' = [h EXCEPT !.reqs[r].pdf = "done", !.pdfBlob = r, !.pdfUrl = r,
                    !.isGeneratingPdf = FALSE, !.note = CvNote("pdf.done", r)]
    /\ UNCHANGED sessionVars

(* pdfService.generatePDF rejects: the catch and the finally block. *)
GeneratePdfFails ==
    /\ \E r \in 1..Len(h.reqs) :
        /\ h.reqs[r].pdf = "pending"
        /\ h' = [h EXCEPT !.reqs[r].pdf = "failed", !.error = PdfError,
                    !.isGeneratingPdf = FALSE, !.note = CvNote("pdf.failed", r)]
    /\ UNCHANGED sessionVars

NextCv ==
    \/ handleGenerateFullCV
    \/ GenerationResolves
    \/ GenerationRejects
    \/ TimerExpires
    \/ GeneratePdfReturns
    \/ GeneratePdfFails

SpecCv == InitCv /\ [][NextCv]_vars

(* What the view shows of a generation. *)
CvShown(s) == <<s.isGeneratingPdf, s.error, s.pdfUrl, s.pdfBlob, s.previewResult>>

(* C24: the race of a request is decided once.  When the timer wins, the    *)
(* request ends with the time-out error and isGeneratingPdf false, and its  *)
(* result never becomes the preview or the PDF; a generation result or a    *)
(* timer expiry that comes after the race was decided changes nothing the   *)
(* view shows.                                                              *)
C24_RaceDecidesOnce ==
    [][/\ \A r \in 1..Len(h.reqs) :
            /\ h.reqs[r].race # "pending" => h'.reqs[r].race = h.reqs[r].race
            /\ h'.reqs[r].race = "timeout" =>
                    h'.previewResult # r /\ h'.pdfUrl # r /\ h'.pdfBlob # r
       /\ (h'.note.name = "timer.won" /\ h'.note # h.note) =>
            h'.error = TimedOutError /\ ~h'.isGeneratingPdf
       /\ h'.note.name \in {"generation.late", "timer.late"} => CvShown(h') = CvShown(h)]_vars

(* C24 witness: the timer of the first request won, a second request is     *)
(* running, and the result of the first arrived late.                       *)
C24_Witness ==
    /\ h.note = CvNote("generation.late", 1)
    /\ h.reqs[1].race = "timeout"
    /\ Len(h.reqs) = 2
    /\ h.isGeneratingPdf

(* The generation of a request won and its timer expired later. *)
C24_TimerLate ==
    /\ h.note = CvNote("timer.late", 1)
    /\ h.reqs[1].race = "generation"
    /\ h.pdfUrl = 1

(***************************************************************************)
(* retryOperation of the Gemini client, called on its own.  No caller      *)
(* passes `retries` or `delay`, so 2 and 2000 are what the program runs;   *)
(* the loop is examined for every retries from 1 to MaxRetries.            *)
(***************************************************************************)
MaxRetries == 3

DefaultDelay == 2000

OperationValues == {"v1", "v2"}

OperationErrors == {"e1", "e2", "e3"}

ExhaustedError == "Operation failed after retries"

Returned(v) == [ok |-> TRUE, value |-> v]

Thrown(e) == [ok |-> FALSE, value |-> e]

(* Mutant of IsLastAttempt: the error of no attempt is rethrown. *)
IsLastAttemptNever(i, retries) == FALSE

(* retryOperation line 23: if (i === retries - 1) throw error *)
IsLastAttempt(i, retries) == i = retries - 1

InitRetry ==
    /\ InitSession("arbitrary", <<>>)
    /\ \E r \in 1..MaxRetries :
        h = [pc |-> "loop", i |-> 0, retries |-> r, delay |-> DefaultDelay,
             calls |-> 0, outcomes |-> <<>>, waits |-> <<>>, result |-> Thrown("")]

(* The head of the for loop: the operation is invoked while i < retries;    *)
(* after the loop the function throws its own error.                        *)
retryOperation ==
    /\ h.pc = "loop"
    /\ h' = IF h.i < h.retries
            THEN [h EXCEPT !.pc = "awaiting", !.calls = @ + 1]
            ELSE [h EXCEPT !.pc = "threw", !.result = Thrown(ExhaustedError)]
    /\ UNCHANGED sessionVars

(* `return await operation()`: the operation resolved. *)
OperationReturns ==
    /\ h.pc = "awaiting"
    /\ \E v \in OperationValues :
        h' = [h EXCEPT !.pc = "returned", !.outcomes = Append(@, Returned(v)),
                !.result = Returned(v)]
    /\ UNCHANGED sessionVars

(* The operation rejected: the catch rethrows the error of the last         *)
(* attempt, and otherwise waits delay * (i + 1).                            *)
OperationThrows ==
    /\ h.pc = "awaiting"
    /\ \E e \in OperationErrors :
        h' = IF IsLastAttempt(h.i, h.retries)
             THEN [h EXCEPT !.pc = "threw", !.outcomes = Append(@, Thrown(e)),
                     !.result = Thrown(e)]
             ELSE [h EXCEPT !.pc = "waiting", !.outcomes = Append(@, Thrown(e)),
                     !.waits = Append(@, h.delay * (h.i + 1))]
    /\ UNCHANGED sessionVars

(* The timer of the wait fires: the next iteration. *)
DelayElapses ==
    /\ h.pc = "waiting"
    /\ h' = [h EXCEPT !.pc = "loop", !.i = @ + 1]
    /\ UNCHANGED sessionVars

NextRetry ==
    \/ retryOperation
    \/ OperationReturns
    \/ OperationThrows
    \/ DelayElapses

(* Every invocation of the operation settles and every timer fires. *)
SpecRetry == InitRetry /\ [][NextRetry]_vars /\ WF_vars(NextRetry)

RetryTerminated == h.pc \in {"returned", "threw"}

(* The attempts so far: at most `retries`, a wait after every failed one    *)
(* but the last, no attempt after a success; at the end at least one        *)
(* attempt was made, a success is returned with its value and after         *)
(* `retries` failures the error of the last attempt is thrown.              *)
RetryIsBounded ==
    /\ h.calls <= h.retries
    /\ \A k \in 1..Len(h.outcomes) : h.outcomes[k].ok => k = Len(h.outcomes) /\ h.pc = "returned"
    /\ \A k \in 1..Len(h.waits) : h.waits[k] = h.delay * k /\ h.waits[k] > 0
    /\ RetryTerminated =>
        /\ h.calls >= 1
        /\ Len(h.outcomes) = h.calls
        /\ Len(h.waits) = h.calls - 1
        /\ h.result = Last(h.outcomes)
        /\ h.pc = "returned" <=> Last(h.outcomes).ok
        /\ h.pc = "threw" => h.calls = h.retries

(* C25: retryOperation invokes the operation at least once and at most      *)
(* `retries` times, stops at the first success and returns its value, waits *)
(* between attempts, rethrows the error of the last attempt when all fail,  *)
(* and always terminates.                                                   *)
C25_BoundedRetry == []RetryIsBounded /\ <>RetryTerminated

(* C25 witness: with the default of two attempts both failed, with          *)
(* different errors, one wait between them, and the second error is thrown. *)
C25_Witness ==
    /\ h.pc = "threw"
    /\ h.retries = DefaultRetries
    /\ h.outcomes = <<Thrown("e1"), Thrown("e2")>>
    /\ h.waits = <<DefaultDelay>>
    /\ h.result = Thrown("e2")

(* The second attempt succeeded. *)
C25_SecondAttemptSucceeds ==
    /\ h.pc = "returned"
    /\ h.calls = 2
    /\ h.result = Returned("v1")

(***************************************************************************)
(* Progress of a session.  Every call in flight eventually returns or      *)
(* fails, playback ends, the recorder delivers its stop event and the      *)
(* candidate eventually presses stop; the Turn Generator is the one that   *)
(* eventually signals completion.                                          *)
(***************************************************************************)
InitLive ==
    /\ InitSession("finishing", <<Task("getUserMedia", <<>>, Null, "", 0, 0)>>)
    /\ h = HarnessIdle

SpecLive ==
    /\ InitLive
    /\ [][Next]_vars
    /\ WF_vars(MicrophoneGranted \/ MicrophoneDenied)
    /\ WF_vars(GetNextStepReturns \/ GetNextStepFails)
    /\ WF_vars(GenerateSpeechReturns \/ GenerateSpeechFails)
    /\ WF_vars(PlaybackEnds \/ PlaybackFails)
    /\ WF_vars(TranscribeAudioReturns \/ TranscribeAudioFails)
    /\ WF_vars(OnStop)
    /\ WF_vars(StopRecordingAndProcess)

Complete == finishCount > 0

Terminal == Complete \/ Failed

(* A call of the loop or the microphone request is in flight, playback is   *)
(* running or the recorder's stop event is queued.                          *)
WorkPending == Len(tasks) > 0

(* Recording is active and the stop control is enabled. *)
AwaitingStop == recorder = "recording" /\ ~StopDisabled

SomethingPending == ~Terminal => WorkPending \/ AwaitingStop

(* The candidate has just been asked to answer again: the recording was     *)
(* empty, its transcript degenerate, or the transcription failed.           *)
AskedAgain == ~Terminal /\ AwaitingStop /\ transcriptionError # NoError

(* C27 as stated: in every non-terminal state something is pending, and     *)
(* every session eventually reaches Complete or Failed.                     *)
C27_EventuallyTerminal == []SomethingPending /\ <>Terminal

(* C27 as amended: in every non-terminal state something is pending, and a  *)
(* session reaches Complete or Failed unless the candidate is asked again   *)
(* and again for an answer.                                                 *)
C27_TerminalOrAskedAgain == []SomethingPending /\ (<>Terminal \/ []<>AskedAgain)

(* C27 witness: the session is Complete, the Turn Generator having sent the *)
(* report for the last answer it may wait for.                              *)
C27_Witness ==
    /\ Complete
    /\ generator = "finishing"
    /\ interviewReport # None
    /\ Len(interviewReport[1].transcript) = MaxTurns

(* The candidate is asked again for an answer. *)
C27_AskedAgain == AskedAgain /\ generator = "finishing" /\ failedInRow = "again"

(***************************************************************************)
(* HistoryView: deleting items of the history.  `h` holds the documents    *)
(* stored for the user, the list shown, the deleteHistoryItem calls in     *)
(* flight and the loadData calls in flight, each with what its query read. *)
(* The list is kept as the set of its item ids: the order (newest first)   *)
(* plays no part in what is shown.                                         *)
(***************************************************************************)
MaxReloads == 2

HistoryItems == {"i1", "i2", "i3"}

HistoryNote(name, item) == [name |-> name, item |-> item]

Reload(stage, items) == [stage |-> stage, items |-> items]

(* dbService.getUserHistory: the documents the query read, or the empty     *)
(* list when the read threw.                                                *)
getUserHistory(read, failed) == IF failed THEN {} ELSE read

(* The view after its first load. *)
InitHistory ==
    /\ InitSession("arbitrary", <<>>)
    /\ h = [stored |-> HistoryItems, history |-> HistoryItems, loading |-> FALSE,
            deletes |-> {}, reloads |-> <<>>, started |-> 0, readFailed |-> FALSE,
            note |-> HistoryNote("loaded", "")]

(* handleDeleteItem up to its await: the item leaves the list shown (the    *)
(* list is shown while no load is running).                                 *)
handleDeleteItem ==
    /\ ~h.loading
    /\ \E item \in h.history :
        h' = [h EXCEPT !.history = @ \ {item}, !.deletes = @ \cup {item},
                !.note = HistoryNote("delete", item)]
    /\ UNCHANGED sessionVars

(* deleteHistoryItem resolved: the document is deleted. *)
DeleteSucceeds ==
    /\ \E item \in h.deletes :
        h' = [h EXCEPT !.stored = @ \ {item}, !.deletes = @ \ {item},
                !.note = HistoryNote("delete.done", item)]
    /\ UNCHANGED sessionVars

(* deleteHistoryItem threw: the catch of handleDeleteItem calls loadData,   *)
(* which sets loading and issues the query.                                 *)
DeleteFails ==
    /\ h.started < MaxReloads
    /\ \E item \in h.deletes :
        h' = [h EXCEPT !.deletes = @ \ {item}, !.loading = TRUE,
                !.reloads = Append(@, Reload("issued", {})), !.started = @ + 1,
                !.note = HistoryNote("delete.failed", item)]
    /\ UNCHANGED sessionVars

(* The database answers the query of a loadData. *)
QueryReads ==
    /\ \E r \in 1..Len(h.reloads) :
        /\ h.reloads[r].stage = "issued"
        /\ h' = [h EXCEPT !.reloads[r] = Reload("read", h.stored),
                    !.note = HistoryNote("query.read", "")]
    /\ UNCHANGED sessionVars

(* loadData after `await getUserHistory`: the list is replaced and loading  *)
(* ends.                                                                    *)
loadData ==
    /\ \E r \in 1..Len(h.reloads), failed \in BOOLEAN :
        /\ h.reloads[r].stage = "read"
        /\ h' = [h EXCEPT !.history = getUserHistory(h.reloads[r].items, failed),
                    !.loading = FALSE, !.readFailed = @ \/ failed,
                    !.reloads = RemoveAt(@, r),
                    !.note = HistoryNote(IF failed THEN "load.failed" ELSE "load.done", "")]
    /\ UNCHANGED sessionVars

NextHistory ==
    \/ handleDeleteItem
    \/ DeleteSucceeds
    \/ DeleteFails
    \/ QueryReads
    \/ loadData

SpecHistory == InitHistory /\ [][NextHistory]_vars

(* No deleteHistoryItem call and no reload is pending. *)
HistorySettled == h.deletes = {} /\ Len(h.reloads) = 0

(* C28: once the deletes and the reloads they trigger have settled (every   *)
(* reload having read the database without error), the list shown is the    *)
(* set of items stored.                                                     *)
C28_DisplayedEqualsStored ==
    (HistorySettled /\ ~h.readFailed) => h.history = h.stored

(* All settled, every query answered without error, and an item whose       *)
(* delete succeeded is shown.                                               *)
C28_DeletedItemShown ==
    /\ HistorySettled
    /\ ~h.readFailed
    /\ h.history \ h.stored # {}

(* All settled and, a reload having failed to read, nothing is shown. *)
C28_NothingShown ==
    /\ HistorySettled
    /\ h.readFailed
    /\ h.history = {}
    /\ h.stored = HistoryItems

(***************************************************************************)
(* userService.validateAdminPin and AdminPinView.handleEnter.  A PIN text  *)
(* is a sequence of tokens: "1" a digit, " " a blank, "'" a quote mark,    *)
(* "undefined" and "null" the letters of these two words.                  *)
(***************************************************************************)
MaxPinLen == 2

PinTexts(alphabet) == UNION {[1..n -> alphabet] : n \in 0..MaxPinLen}

(* What the user may type into the PIN field. *)
InputPins == PinTexts({"1", " ", "'", "undefined"}) \ {<<>>}

(* The value of the field `pin` of the settings document: absent, null or   *)
(* a text.                                                                  *)
PinValue(type, text) == [type |-> type, text |-> text]

PinValues ==
    {PinValue("undefined", <<>>), PinValue("null", <<>>)}
        \cup {PinValue("string", t) : t \in PinTexts({"1", " ", "'"})}

(* The document system_config/admin_settings: missing, or with its data. *)
SettingsDocs == {None} \cup {Some([pin |-> v]) : v \in PinValues}

(* String(data.pin) *)
StringOf(v) ==
    IF v.type = "undefined" THEN <<"undefined">>
    ELSE IF v.type = "null" THEN <<"null">>
    ELSE v.text

(* replace(/['"]/g, '') *)
StripQuotes(t) == SelectSeq(t, LAMBDA tok : tok # "'")

PinResult(isValid, error) == [isValid |-> isValid, error |-> error]

(* validateAdminPin lines 211-227, the document read. *)
PinCheck(doc, inputPin) ==
    IF doc = None
    THEN PinResult(FALSE, "Security Configuration missing.")
    ELSE IF Trim(StripQuotes(StringOf(doc[1].pin))) = Trim(inputPin)
    THEN PinResult(TRUE, "")
    ELSE PinResult(FALSE, "Incorrect PIN.")

InitPin ==
    /\ InitSession("arbitrary", <<>>)
    /\ \E doc \in SettingsDocs, pin \in InputPins, cu \in {"none", "anon"} :
        h = [pc |-> "idle", doc |-> doc, pin |-> pin, currentUser |-> cu,
             result |-> PinResult(FALSE, ""), error |-> "null", readOk |-> FALSE,
             view |-> "ADMIN_PIN"]

(* AdminPinView.handleEnter up to the await (the empty field returns), and  *)
(* validateAdminPin up to its first await.                                  *)
handleEnter ==
    /\ h.pc = "idle"
    /\ h.pin # <<>>
    /\ h' = [h EXCEPT !.pc = IF h.currentUser = "none" THEN "signInAnonymously"
                                                       ELSE "docRef.get",
                      !.error = "null"]
    /\ UNCHANGED sessionVars

(* validateAdminPin lines 187-194: the anonymous sign-in settled. *)
PinSignInSettles ==
    /\ h.pc = "signInAnonymously"
    /\ \E ok \in BOOLEAN :
        h' = IF ok
             THEN [h EXCEPT !.pc = "docRef.get", !.currentUser = "anon"]
             ELSE [h EXCEPT !.pc = "idle", !.result = PinResult(FALSE, "Auth Error"),
                            !.error = "Auth Error"]
    /\ UNCHANGED sessionVars

(* validateAdminPin after `await docRef.get()` and handleEnter after        *)
(* `await validateAdminPin(pin)`.                                           *)
PinDocRead ==
    /\ h.pc = "docRef.get"
    /\ \E ok \in BOOLEAN :
        LET result == IF ok THEN PinCheck(h.doc, h.pin)
                            ELSE PinResult(FALSE, "Connection Error")
        IN h' = [h EXCEPT !.result = result, !.readOk = ok,
                          !.pc = IF result.isValid THEN "enterAdminPanel" ELSE "idle",
                          !.error = IF result.isValid THEN "null" ELSE result.error,
                          !.pin = IF result.error = "Incorrect PIN." THEN <<>> ELSE h.pin]
    /\ UNCHANGED sessionVars

(* App.handleAdminPinSuccess: enterAdminPanel after loadApprovedEmails. *)
enterAdminPanel ==
    /\ h.pc = "enterAdminPanel"
    /\ h' = [h EXCEPT !.pc = "done", !.view = "ADMIN_PANEL"]
    /\ UNCHANGED sessionVars

NextPin ==
    \/ handleEnter
    \/ PinSignInSettles
    \/ PinDocRead
    \/ enterAdminPanel

SpecPin == InitPin /\ [][NextPin]_vars

(* The settings document exists and has a pin field. *)
HasPin(doc) == doc # None /\ doc[1].pin.type # "undefined"

(* C29: the PIN is accepted, and the admin panel entered, only if the       *)
(* document was read, exists, has a pin field and the pin, quotes stripped  *)
(* and trimmed, equals the trimmed input.                                   *)
C29_FailClosed ==
    /\ h.result.isValid =>
        /\ h.readOk
        /\ HasPin(h.doc)
        /\ Trim(StripQuotes(StringOf(h.doc[1].pin))) = Trim(h.pin)
    /\ h.view = "ADMIN_PANEL" => h.result.isValid

(* The document has no pin field and the admin panel is entered. *)
C29_AcceptedWithoutPin ==
    /\ h.view = "ADMIN_PANEL"
    /\ h.doc = Some([pin |-> PinValue("undefined", <<>>)])
    /\ h.pin = <<"undefined">>

(***************************************************************************)
(* UserProfileView.loadProfile: the patching of a stored profile.  A list  *)
(* that the stored document lacks is None; the id "" stands for a missing  *)
(* or empty id.  A certification entry is a legacy string or a record; a   *)
(* record made by spreading a string has the characters of the string as   *)
(* its fields and no name.                                                 *)
(***************************************************************************)
MaxCerts == 2

MaxLoads == 2

(* generateId(): a fresh, non-empty identifier. *)
generateId == "generated"

Ids == {"", "id1"}

(* An experience or project item. *)
Item(id) == [id |-> id]

(* An education item: endDate falls back to the legacy field year. *)
Education(id, endDate, year) == [id |-> id, endDate |-> endDate, year |-> year]

CertString(text) == [kind |-> "string", text |-> text, id |-> "", name |-> None]

CertRecord(id, name) == [kind |-> "record", text |-> "", id |-> id, name |-> name]

StoredCerts == {CertString("AWS")} \cup {CertRecord(id, Some("PMP")) : id \in Ids}

Lists(S, n) == UNION {[1..k -> S] : k \in 0..n}

StoredProfiles ==
    [experience : {None} \cup {Some(l) : l \in Lists({Item(id) : id \in Ids}, 1)},
     education : {None} \cup {Some(l) : l \in Lists({Education("", "", "2020"),
                                                     Education("id1", "2021", "")}, 1)},
     projects : {None, Some(<<Item("")>>)},
     skills : {None, Some(<<"sql">>)},
     certifications : {None} \cup {Some(l) : l \in Lists(StoredCerts, MaxCerts)}]

(* e.id || generateId() *)
IdOr(id) == IF id # "" THEN id ELSE generateId

(* lines 52 and 67: items.map(e => ({ ...e, id: e.id || generateId() })) *)
PatchItems(items) ==
    IF items = None THEN None
    ELSE Some([k \in 1..Len(items[1]) |-> [items[1][k] EXCEPT !.id = IdOr(@)]])

(* lines 54-65 *)
PatchEducation(items) ==
    IF items = None THEN None
    ELSE Some([k \in 1..Len(items[1]) |->
                 LET e == items[1][k]
                 IN Education(IdOr(e.id), IF e.endDate # "" THEN e.endDate ELSE e.year, "")])

(* line 69 *)
PatchSkills(skills) == IF skills = None THEN Some(<<>>) ELSE skills

(* The name given to a record made from entry c in the legacy branch: c     *)
(* itself, a text only when c is a string.                                  *)
NameOf(c) == IF c.kind = "string" THEN Some(c.text) ELSE Some("(a record)")

(* { ...c, id: c.id || generateId() }: the spread of a string has no name. *)
SpreadWithId(c) ==
    IF c.kind = "string" THEN [CertRecord(generateId, None) EXCEPT !.text = c.text]
    ELSE [c EXCEPT !.id = IdOr(@)]

(* lines 72-89: the type of the first entry decides for the whole list. *)
PatchCertifications(certs) ==
    IF certs = None \/ certs = Some(<<>>) THEN Some(<<>>)
    ELSE IF certs[1][1].kind = "string"
    THEN Some([k \in 1..Len(certs[1]) |-> CertRecord(generateId, NameOf(certs[1][k]))])
    ELSE Some([k \in 1..Len(certs[1]) |-> SpreadWithId(certs[1][k])])

(* loadProfile lines 50-89 *)
PatchProfile(data) ==
    [experience |-> PatchItems(data.experience),
     education |-> PatchEducation(data.education),
     projects |-> PatchItems(data.projects),
     skills |-> PatchSkills(data.skills),
     certifications |-> PatchCertifications(data.certifications)]

InitProfile ==
    /\ InitSession("arbitrary", <<>>)
    /\ \E data \in StoredProfiles :
        h = [original |-> data, stored |-> data, profile |-> None, loads |-> 0,
             pc |-> "loading"]

(* loadProfile after `await getCandidateProfile`: the patched data becomes  *)
(* the profile of the view.                                                 *)
loadProfile ==
    /\ h.pc = "loading"
    /\ h' = [h EXCEPT !.profile = Some(PatchProfile(h.stored)), !.pc = "shown",
                      !.loads = @ + 1]
    /\ UNCHANGED sessionVars

(* handleSave: the profile shown is stored. *)
handleSave ==
    /\ h.pc = "shown"
    /\ h' = [h EXCEPT !.stored = h.profile[1], !.pc = "saved"]
    /\ UNCHANGED sessionVars

(* The view is opened again: loadProfile runs on what is stored. *)
ProfileViewMounts ==
    /\ h.pc \in {"shown", "saved"}
    /\ h.loads < MaxLoads
    /\ h' = [h EXCEPT !.pc = "loading", !.profile = None]
    /\ UNCHANGED sessionVars

NextProfile ==
    \/ loadProfile
    \/ handleSave
    \/ ProfileViewMounts

SpecProfile == InitProfile /\ [][NextProfile]_vars

HasIds(items) == items # None => \A k \in 1..Len(items[1]) : items[1][k].id # ""

KeepsIds(items, stored) ==
    (items # None /\ stored # None) =>
        /\ Len(items[1]) = Len(stored[1])
        /\ \A k \in 1..Len(stored[1]) : stored[1][k].id # "" => items[1][k].id = stored[1][k].id

(* The name a stored certification entry has. *)
StoredName(c) == IF c.kind = "string" THEN Some(c.text) ELSE c.name

KeepsNames(certs, stored) ==
    stored # None =>
        /\ Len(certs[1]) = Len(stored[1])
        /\ \A k \in 1..Len(stored[1]) :
            certs[1][k].kind = "record" /\ certs[1][k].name = StoredName(stored[1][k])

(* C30: the profile shown after loading has an id on every experience,      *)
(* education, project and certification item, ids stored are kept, every    *)
(* certification is a record with the name it was stored with, skills is a  *)
(* list, and patching the profile again changes nothing.                    *)
C30_PatchedProfile ==
    h.profile # None =>
        LET p == h.profile[1]
            o == h.original
        IN  /\ HasIds(p.experience) /\ KeepsIds(p.experience, o.experience)
            /\ HasIds(p.education) /\ KeepsIds(p.education, o.education)
            /\ HasIds(p.projects) /\ KeepsIds(p.projects, o.projects)
            /\ HasIds(p.certifications) /\ KeepsIds(p.certifications, o.certifications)
            /\ KeepsNames(p.certifications, o.certifications)
            /\ p.skills # None
            /\ PatchProfile(p) = p

(* A legacy string that stands behind a record in the stored list has lost  *)
(* its name.                                                                *)
C30_LegacyNameLost ==
    /\ h.profile # None
    /\ h.original.certifications = Some(<<CertRecord("id1", Some("PMP")), CertString("AWS")>>)
    /\ h.profile[1].certifications[1][2].name = None

(* A list of legacy strings has been migrated to records with their names. *)
C30_LegacyMigrated ==
    /\ h.profile # None
    /\ h.original.certifications = Some(<<CertString("AWS"), CertString("AWS")>>)
    /\ h.profile[1].certifications[1][2].name = Some("AWS")
    /\ h.loads = 2

====
